---- MODULE Spec2Model ----
(***************************************************************************)
(* consul-generator: the CLI Supervisor (Cli.Run), the Runner              *)
(* (Start / Stop), the Sync Processor (Process) and the retry policy       *)
(* (RetryConfig.RetryFunc), as a state machine.                            *)
(*                                                                         *)
(* Goroutines: the Supervisor loop, one Runner loop per generation.        *)
(* ErrCh and DoneCh are unbuffered: a send is a rendezvous with a          *)
(* receiver; a send on a closed channel panics and ends the process.       *)
(***************************************************************************)
EXTENDS Integers, Sequences, FiniteSets, TLC

\* ------------------------------------------------------------------ bounds
MaxSignals == 2
MaxReloads == 1
MaxPasses == 1
MaxSeqPasses == 2
MaxKeys == 2
MaxTesters == 2
MaxStopCalls == 2
MaxRetry == 4
MaxBackoffUnits == 5
MaxLivePasses == 2
MaxSetFields == 1
MaxPaths == 2

\* Generations: one at startup plus one per reload.
MaxGen == MaxReloads + 1
Gens == 1..MaxGen

\* ------------------------------------------------------------------ exit codes
\* const ( ExitCodeOK int = 0; ExitCodeError = 10 + iota; ... ): iota is the
\* index of the constant in the block, and the expression is repeated for the
\* constants that follow.
ExitCodeBlock ==
  << "ExitCodeOK", "ExitCodeError", "ExitCodeInterrupt",
     "ExitCodeParseFlagsError", "ExitCodeRunnerError", "ExitCodeConfigError" >>

Iota(name) == (CHOOSE i \in 1..Len(ExitCodeBlock) : ExitCodeBlock[i] = name) - 1

ExitCodeOK == 0
ExitCodeError == 10 + Iota("ExitCodeError")
ExitCodeInterrupt == 10 + Iota("ExitCodeInterrupt")
ExitCodeParseFlagsError == 10 + Iota("ExitCodeParseFlagsError")
ExitCodeRunnerError == 10 + Iota("ExitCodeRunnerError")
ExitCodeConfigError == 10 + Iota("ExitCodeConfigError")

\* ------------------------------------------------------------------ inputs
Signals == {"reload", "kill", "other"}

\* A remote key is the sequence of its "/"-separated parts (strings.Split).
KeyOrder == << <<"p", "a">>, <<"p", "b">>, <<"p", "d", "">>, <<"p", "d", "a">> >>
Payloads == {"1", "2"}
Names == {"a", "b"}
NoFile == "<nofile>"
Contents == Payloads \cup {""}

\* A listing: keys in the store's (sorted) order, each at most once.
RECURSIVE ListingsFrom(_, _)
ListingsFrom(i, n) ==
  IF i > Len(KeyOrder) \/ n = 0 THEN {<<>>}
  ELSE ListingsFrom(i + 1, n)
       \cup { <<[Key |-> KeyOrder[i], Value |-> v]>> \o rest :
                v \in Payloads, rest \in ListingsFrom(i + 1, n - 1) }

Listings == ListingsFrom(1, MaxKeys)

\* Errors a collaborator can return: plain, or carrying an exit status
\* (manager.ErrExitable).
ExitHints == {7}
PlainErr(kind) == [kind |-> kind, exitable |-> FALSE, status |-> 0]
ListErrors == {PlainErr("list")} \cup
              {[kind |-> "list", exitable |-> TRUE, status |-> s] : s \in ExitHints}
NoErr == PlainErr("none")

Testers == 1..MaxTesters
Callers == {0} \cup Testers     \* 0 is the Supervisor
CliCaller == 0

\* ------------------------------------------------------------------ state
VARIABLES
  \* Supervisor (Cli.Run)
  cliPc,        \* "run", "select", "done_stop", "reload_stop", "reload_load",
                \* "kill_stop", "exited"
  cur,          \* generation of the variable `runner` (0: none yet)
  signalCh,     \* chan os.Signal, capacity 1
  sigCount,     \* OS signals delivered so far (bounded by MaxSignals)
  stopCh,       \* cli.stopCh: "open" / "closed"
  cliStopped,   \* cli.stopped
  exitCode,     \* value returned by Cli.Run (meaningful when cliPc = "exited")
  exitCause,    \* which return statement produced it
  procGone,     \* the caller of Cli.Run has exited the process
  panicked,     \* a goroutine panicked: the process is gone
  \* flags and world
  dry, once, pidPath,
  remote,       \* what kv.List returns on success
  fs,           \* files under the destination directory: name -> content
  toDir,        \* the destination directory exists
  pidFile,      \* the PID file exists
  \* Runner, per generation
  rPc,          \* "none", "start", "newproc", "loop", "list", "entries",
                \* "pid_err_send", "init_err_send", "pass_err_send",
                \* "done_send", "exited"
  stopped, doneCh, stopLock,
  pendingErr,   \* the error a blocked `ErrCh <- err` is sending
  pass,         \* the pass in flight: keys listed, next index, saves, reads,
                \* and the files as they were when it listed
  hist,         \* passes that returned, oldest first
  passCount,    \* passes started
  passLimit,    \* passes the model lets start in all (fixed by Init)
  \* Runner.Stop calls in flight, per caller
  stopPc,       \* "idle", "lock", "check", "deletePid", "close", "returned"
  stopTarget,
  stopCalls,    \* calls issued by each tester
  stopReturned, \* per generation: number of Stop calls that returned
  closeCount,   \* per generation: number of close(DoneCh) executed
  pidAttempts,  \* per generation: number of deletePid calls
  \* retry policy under evaluation
  retryCfg, retryIdx, retryRes,
  \* configuration: the structs in memory and the inputs of a resolution
  heap,         \* the allocated structs, by address (0 is the nil pointer)
  cfgA, cfgB,   \* addresses of the operands of Merge / the receiver of Finalize
  cfgOut,       \* address of the last result
  cfgOp,        \* last operation: "none", "merge", "finalize", "resolve", "reload"
  cfgFlags,     \* the fields given as command-line flags
  cfgFiles,     \* what the -config paths hold, in command-line order
  cfgCli,       \* address of cliConfig, the copy Cli.Run keeps for reloads
  cfgLoads      \* resolutions done so far

cliVars == << cliPc, cur, signalCh, sigCount, stopCh, cliStopped,
              exitCode, exitCause, procGone >>
worldVars == << dry, once, pidPath, remote, fs, toDir, pidFile, passLimit >>
runnerVars == << rPc, stopped, doneCh, stopLock, pendingErr, pass, hist,
                 passCount >>
stopVars == << stopPc, stopTarget, stopCalls, stopReturned, closeCount,
               pidAttempts >>
retryVars == << retryCfg, retryIdx, retryRes >>
confVars == << heap, cfgA, cfgB, cfgOut, cfgOp, cfgFlags, cfgFiles, cfgCli,
               cfgLoads >>
vars == << cliVars, worldVars, runnerVars, stopVars, retryVars, confVars,
           panicked >>

NoPass == [keys |-> <<>>, idx |-> 0, saves |-> <<>>, reads |-> 0,
           before |-> [n \in Names |-> NoFile]]
NoRetry == [enabled |-> FALSE, attempts |-> 0, backoff |-> 1, maxBackoff |-> 0]
NoResult == [retry |-> FALSE, wait |-> 0]

\* The process is running: it has not exited and nothing panicked. Between
\* the return of Cli.Run and the exit the other goroutines still run.
Alive == ~procGone /\ ~panicked

\* ------------------------------------------------------------------ Processor
\* parts := strings.Split(pair.Key, "/"); filename := parts[len(parts)-1]
Leaf(key) == key[Len(key)]

\* getHash: hex SHA-256 of the bytes (taken as collision-free).
getHash(v) == <<"sha256", v>>

\* calculateFileHash: "" (here <<>>) when the file cannot be read.
calculateFileHash(name) ==
  IF ~toDir \/ fs[name] = NoFile THEN <<>> ELSE getHash(fs[name])

\* Mutant of NeedsSave: a file that cannot be read is left alone.
NeedsSaveIfReadable(pair) ==
  /\ calculateFileHash(Leaf(pair.Key)) # <<>>
  /\ calculateFileHash(Leaf(pair.Key)) # getHash(pair.Value)

\* The comparison of Process: fHash != sHash.
NeedsSave(pair) == calculateFileHash(Leaf(pair.Key)) # getHash(pair.Value)

\* Outcomes of save: nil at once when dry, else those of os.Create + io.Copy.
SaveResults ==
  IF dry THEN {"ok"}
  ELSE IF toDir THEN {"ok", "create_err", "copy_err"} ELSE {"create_err"}

\* Mutant of save: the dry flag is not consulted.
saveIgnoreDry(file, s, res) ==
  CASE res = "ok" -> [fs EXCEPT ![file] = s]
    [] res = "copy_err" -> [fs EXCEPT ![file] = ""]
    [] OTHER -> fs

\* Mutant of save: the destination directory is made a mirror: the other
\* files are removed.
saveAndPrune(file, s, res) ==
  IF dry THEN fs
  ELSE CASE res = "ok" -> [n \in Names |-> IF n = file THEN s ELSE NoFile]
         [] res = "copy_err" -> [fs EXCEPT ![file] = ""]
         [] OTHER -> fs

\* Processor.save: the files after the call. Dry: only a log line. Otherwise
\* os.Create truncates or creates the file and io.Copy writes the payload.
save(file, s, res) ==
  IF dry THEN fs
  ELSE CASE res = "ok" -> [fs EXCEPT ![file] = s]
         [] res = "copy_err" -> [fs EXCEPT ![file] = ""]
         [] OTHER -> fs

PassRecord(p, result, done) ==
  [keys |-> p.keys, saves |-> p.saves, reads |-> p.reads,
   result |-> result, done |-> done]

\* ------------------------------------------------------------------ Runner
\* Runner.Start up to NewProcessor: storePid, then Run() (which does nothing).
RunnerStart(g) ==
  /\ Alive /\ rPc[g] = "start"
  /\ \E res \in (IF pidPath = "" THEN {"ok"} ELSE {"ok", "open_err", "write_err"}) :
       /\ pidFile' = (IF pidPath # "" /\ res \in {"ok", "write_err"} THEN TRUE ELSE pidFile)
       /\ IF res = "ok"
          THEN /\ rPc' = [rPc EXCEPT ![g] = "newproc"]
               /\ UNCHANGED pendingErr
          ELSE /\ rPc' = [rPc EXCEPT ![g] = "pid_err_send"]
               /\ pendingErr' = [pendingErr EXCEPT ![g] = PlainErr("pid")]
  /\ UNCHANGED << cliVars, passLimit, dry, once, pidPath, remote, fs, toDir, stopped,
                  doneCh, stopLock, pass, hist, passCount, stopVars, retryVars, confVars,
                  panicked >>

\* processor.NewProcessor -> Processor.init: create the destination directory
\* unless dry.
RunnerNewProcessor(g) ==
  /\ Alive /\ rPc[g] = "newproc"
  /\ IF ~dry /\ ~toDir
     THEN \E ok \in BOOLEAN :
            IF ok
            THEN /\ toDir' = TRUE
                 /\ rPc' = [rPc EXCEPT ![g] = "loop"]
                 /\ UNCHANGED pendingErr
            ELSE /\ rPc' = [rPc EXCEPT ![g] = "init_err_send"]
                 /\ pendingErr' = [pendingErr EXCEPT ![g] = PlainErr("mkdir")]
                 /\ UNCHANGED toDir
     ELSE /\ rPc' = [rPc EXCEPT ![g] = "loop"]
          /\ UNCHANGED << toDir, pendingErr >>
  /\ UNCHANGED << cliVars, passLimit, dry, once, pidPath, remote, fs, pidFile, stopped,
                  doneCh, stopLock, pass, hist, passCount, stopVars, retryVars, confVars,
                  panicked >>

RECURSIVE SumOver(_, _)
SumOver(f, S) ==
  IF S = {} THEN 0
  ELSE LET x == CHOOSE y \in S : TRUE IN f[x] + SumOver(f, S \ {x})

\* Passes started so far, over all generations.
PassesStarted == SumOver(passCount, Gens)

\* select case <-r.ticker.C: the ticker made by NewRunner fires (nothing ever
\* stops it) and the loop takes the tick; pr.Process() begins.
LoopTick(g) ==
  /\ Alive /\ rPc[g] = "loop" /\ PassesStarted < passLimit
  /\ rPc' = [rPc EXCEPT ![g] = "list"]
  /\ pass' = [pass EXCEPT ![g] = NoPass]
  /\ passCount' = [passCount EXCEPT ![g] = @ + 1]
  /\ UNCHANGED << cliVars, worldVars, stopped, doneCh, stopLock, pendingErr,
                  hist, stopVars, retryVars, confVars, panicked >>

\* select case <-r.DoneCh: ready once the channel is closed (the loop's own
\* goroutine is the only sender, so no value is ever received here).
LoopDone(g) ==
  /\ Alive /\ rPc[g] = "loop" /\ doneCh[g] = "closed"
  /\ rPc' = [rPc EXCEPT ![g] = "exited"]
  /\ UNCHANGED << cliVars, worldVars, stopped, doneCh, stopLock, pendingErr,
                  pass, hist, passCount, stopVars, retryVars, confVars, panicked >>

\* Process: keys, _, err := p.kv.List(from, nil)
ProcessList(g) ==
  /\ Alive /\ rPc[g] = "list"
  /\ \/ /\ pass' = [pass EXCEPT ![g] = [NoPass EXCEPT !.keys = remote, !.idx = 1,
                                                      !.before = fs]]
        /\ rPc' = [rPc EXCEPT ![g] = "entries"]
        /\ UNCHANGED pendingErr
     \/ \E err \in ListErrors :
          /\ pendingErr' = [pendingErr EXCEPT ![g] = err]
          /\ rPc' = [rPc EXCEPT ![g] = "pass_err_send"]
          /\ UNCHANGED pass
  /\ UNCHANGED << cliVars, worldVars, stopped, doneCh, stopLock, hist,
                  passCount, stopVars, retryVars, confVars, panicked >>

\* Mutant of ProcessEntry: the leaf is not tested. For an empty leaf the path
\* is the destination directory itself: the read fails and save is called,
\* where os.Create fails.
ProcessEntryNoSkip(g) ==
  /\ Alive /\ rPc[g] = "entries" /\ pass[g].idx <= Len(pass[g].keys)
  /\ LET p == pass[g]
         pair == p.keys[p.idx]
         filename == Leaf(pair.Key)
         next == [p EXCEPT !.idx = @ + 1]
         read == [next EXCEPT !.reads = @ + 1]
         saved == [read EXCEPT !.saves = Append(@, p.idx)]
     IN IF filename = ""
        THEN /\ pass' = [pass EXCEPT ![g] = saved]
             /\ UNCHANGED fs
             /\ IF dry
                THEN UNCHANGED << rPc, pendingErr >>
                ELSE /\ rPc' = [rPc EXCEPT ![g] = "pass_err_send"]
                     /\ pendingErr' = [pendingErr EXCEPT ![g] = PlainErr("write")]
        ELSE IF ~NeedsSave(pair)
        THEN /\ pass' = [pass EXCEPT ![g] = read]
             /\ UNCHANGED << fs, rPc, pendingErr >>
        ELSE \E res \in SaveResults :
               /\ pass' = [pass EXCEPT ![g] = saved]
               /\ fs' = save(filename, pair.Value, res)
               /\ IF res = "ok"
                  THEN UNCHANGED << rPc, pendingErr >>
                  ELSE /\ rPc' = [rPc EXCEPT ![g] = "pass_err_send"]
                       /\ pendingErr' = [pendingErr EXCEPT ![g] = PlainErr("write")]
  /\ UNCHANGED << cliVars, passLimit, dry, once, pidPath, remote, toDir, pidFile,
                  stopped, doneCh, stopLock, hist, passCount, stopVars, retryVars,
                  confVars, panicked >>

\* Process: one iteration of `for _, pair := range keys`.
ProcessEntry(g) ==
  /\ Alive /\ rPc[g] = "entries" /\ pass[g].idx <= Len(pass[g].keys)
  /\ LET p == pass[g]
         pair == p.keys[p.idx]
         filename == Leaf(pair.Key)
         next == [p EXCEPT !.idx = @ + 1]
         read == [next EXCEPT !.reads = @ + 1]
         saved == [read EXCEPT !.saves = Append(@, p.idx)]
     IN IF filename = ""
        THEN /\ pass' = [pass EXCEPT ![g] = next]
             /\ UNCHANGED << fs, rPc, pendingErr >>
        ELSE IF ~NeedsSave(pair)
        THEN /\ pass' = [pass EXCEPT ![g] = read]
             /\ UNCHANGED << fs, rPc, pendingErr >>
        ELSE \E res \in SaveResults :
               /\ pass' = [pass EXCEPT ![g] = saved]
               /\ fs' = save(filename, pair.Value, res)
               /\ IF res = "ok"
                  THEN UNCHANGED << rPc, pendingErr >>
                  ELSE /\ rPc' = [rPc EXCEPT ![g] = "pass_err_send"]
                       /\ pendingErr' = [pendingErr EXCEPT ![g] = PlainErr("write")]
  /\ UNCHANGED << cliVars, passLimit, dry, once, pidPath, remote, toDir, pidFile,
                  stopped, doneCh, stopLock, hist, passCount, stopVars, retryVars, confVars,
                  panicked >>

\* Mutant of ProcessFinish: done is signalled in run-once mode only.
ProcessFinishOnceOnly(g) ==
  /\ Alive /\ rPc[g] = "entries" /\ pass[g].idx > Len(pass[g].keys)
  /\ IF once
     THEN /\ rPc' = [rPc EXCEPT ![g] = "done_send"]
          /\ UNCHANGED hist
     ELSE /\ rPc' = [rPc EXCEPT ![g] = "loop"]
          /\ hist' = [hist EXCEPT ![g] = Append(@, PassRecord(pass[g], "ok", FALSE))]
  /\ UNCHANGED << cliVars, worldVars, stopped, doneCh, stopLock, pendingErr,
                  pass, passCount, stopVars, retryVars, confVars, panicked >>

\* Mutant of ProcessFinish: an empty listing is forwarded as an error.
ProcessFinishEmptyErr(g) ==
  /\ Alive /\ rPc[g] = "entries" /\ pass[g].idx > Len(pass[g].keys)
  /\ IF pass[g].keys = <<>>
     THEN /\ rPc' = [rPc EXCEPT ![g] = "pass_err_send"]
          /\ pendingErr' = [pendingErr EXCEPT ![g] = PlainErr("list")]
          /\ UNCHANGED hist
     ELSE IF once \/ dry
     THEN /\ rPc' = [rPc EXCEPT ![g] = "done_send"]
          /\ UNCHANGED << hist, pendingErr >>
     ELSE /\ rPc' = [rPc EXCEPT ![g] = "loop"]
          /\ hist' = [hist EXCEPT ![g] = Append(@, PassRecord(pass[g], "ok", FALSE))]
          /\ UNCHANGED pendingErr
  /\ UNCHANGED << cliVars, worldVars, stopped, doneCh, stopLock,
                  pass, passCount, stopVars, retryVars, confVars, panicked >>

\* Process after the loop: `if p.once || p.dry { p.done <- true }`, else return.
ProcessFinish(g) ==
  /\ Alive /\ rPc[g] = "entries" /\ pass[g].idx > Len(pass[g].keys)
  /\ IF once \/ dry
     THEN /\ rPc' = [rPc EXCEPT ![g] = "done_send"]
          /\ UNCHANGED hist
     ELSE /\ rPc' = [rPc EXCEPT ![g] = "loop"]
          /\ hist' = [hist EXCEPT ![g] = Append(@, PassRecord(pass[g], "ok", FALSE))]
  /\ UNCHANGED << cliVars, worldVars, stopped, doneCh, stopLock, pendingErr,
                  pass, passCount, stopVars, retryVars, confVars, panicked >>

\* `p.done <- true` on a closed channel (closed before or while the send is
\* blocked): the goroutine panics and the process dies.
SendOnClosed(g) ==
  /\ Alive /\ rPc[g] = "done_send" /\ doneCh[g] = "closed"
  /\ panicked' = TRUE
  /\ UNCHANGED << cliVars, worldVars, runnerVars, stopVars, retryVars, confVars >>

\* Another client of the store deletes a key: later listings lack it.
StoreRemove ==
  /\ Alive /\ remote # <<>>
  /\ \E i \in 1..Len(remote) :
       remote' = SubSeq(remote, 1, i - 1) \o SubSeq(remote, i + 1, Len(remote))
  /\ UNCHANGED << cliVars, passLimit, dry, once, pidPath, fs, toDir, pidFile,
                  runnerVars, stopVars, retryVars, confVars, panicked >>

\* Mutant of AfterErrSend: after a failed storePid the Runner enters its loop.
AfterErrSendLoop(pc) == "loop"

\* Mutant of AfterErrSend: after forwarding its error the pass lists again.
AfterErrSendRetry(pc) == IF pc = "pid_err_send" THEN "exited" ELSE "list"

\* Where the Runner goroutine continues once its blocked send was received.
AfterErrSend(pc) == IF pc = "pid_err_send" THEN "exited" ELSE "loop"

ErrResult(err) == IF err.kind = "list" THEN "list_err" ELSE "write_err"

\* ------------------------------------------------------------------ Runner.Stop
\* Stop, step by step, for the call of caller c on generation stopTarget[c].
\* r.stopLock.Lock()
StopLock(c) ==
  /\ Alive /\ stopPc[c] = "lock" /\ stopLock[stopTarget[c]] = {}
  /\ stopLock' = [stopLock EXCEPT ![stopTarget[c]] = {c}]
  /\ stopPc' = [stopPc EXCEPT ![c] = "check"]
  /\ UNCHANGED << cliVars, worldVars, rPc, stopped, doneCh, pendingErr, pass,
                  hist, passCount, stopTarget, stopCalls, stopReturned, closeCount,
                  pidAttempts, retryVars, confVars, panicked >>

\* Mutant of StopCheck: the stopped flag is not consulted.
StopCheckNoGuard(c) ==
  /\ Alive /\ stopPc[c] = "check"
  /\ stopPc' = [stopPc EXCEPT ![c] = "deletePid"]
  /\ UNCHANGED << cliVars, worldVars, rPc, stopped, doneCh, pendingErr, pass,
                  hist, passCount, stopTarget, stopCalls, closeCount, pidAttempts,
                  retryVars, confVars, panicked, stopLock, stopReturned >>

\* if r.stopped { return }   (the deferred Unlock runs on return)
StopCheck(c) ==
  /\ Alive /\ stopPc[c] = "check"
  /\ LET g == stopTarget[c]
     IN IF stopped[g]
        THEN /\ stopLock' = [stopLock EXCEPT ![g] = {}]
             /\ stopPc' = [stopPc EXCEPT ![c] = "returned"]
             /\ stopReturned' = [stopReturned EXCEPT ![g] = @ + 1]
        ELSE /\ stopPc' = [stopPc EXCEPT ![c] = "deletePid"]
             /\ UNCHANGED << stopLock, stopReturned >>
  /\ UNCHANGED << cliVars, worldVars, rPc, stopped, doneCh, pendingErr, pass,
                  hist, passCount, stopTarget, stopCalls, closeCount, pidAttempts,
                  retryVars, confVars, panicked >>

\* r.deletePid(): an error (no file, remove failed) is logged and dropped.
StopDeletePid(c) ==
  /\ Alive /\ stopPc[c] = "deletePid"
  /\ pidAttempts' = [pidAttempts EXCEPT ![stopTarget[c]] = @ + 1]
  /\ IF pidPath # "" /\ pidFile
     THEN \E removed \in BOOLEAN : pidFile' = ~removed
     ELSE UNCHANGED pidFile
  /\ stopPc' = [stopPc EXCEPT ![c] = "close"]
  /\ UNCHANGED << cliVars, passLimit, dry, once, pidPath, remote, fs, toDir, runnerVars,
                  stopTarget, stopCalls, stopReturned, closeCount, retryVars, confVars,
                  panicked >>

\* r.stopped = true; close(r.DoneCh); deferred Unlock. Closing a closed channel
\* panics.
StopClose(c) ==
  /\ Alive /\ stopPc[c] = "close"
  /\ LET g == stopTarget[c]
     IN /\ stopped' = [stopped EXCEPT ![g] = TRUE]
        /\ closeCount' = [closeCount EXCEPT ![g] = @ + 1]
        /\ IF doneCh[g] = "closed"
           THEN /\ panicked' = TRUE
                /\ UNCHANGED << doneCh, stopLock, stopPc, stopReturned >>
           ELSE /\ doneCh' = [doneCh EXCEPT ![g] = "closed"]
                /\ stopLock' = [stopLock EXCEPT ![g] = {}]
                /\ stopPc' = [stopPc EXCEPT ![c] = "returned"]
                /\ stopReturned' = [stopReturned EXCEPT ![g] = @ + 1]
                /\ UNCHANGED panicked
  /\ UNCHANGED << cliVars, worldVars, rPc, pendingErr, pass, hist, passCount,
                  stopTarget, stopCalls, pidAttempts, retryVars, confVars >>

\* A caller other than the Supervisor (a test, an embedding program) calls
\* r.Stop() on the first Runner.
TesterCallStop(t) ==
  /\ Alive /\ stopPc[t] \in {"idle", "returned"} /\ stopCalls[t] < MaxStopCalls
  /\ rPc[1] # "none"
  /\ stopPc' = [stopPc EXCEPT ![t] = "lock"]
  /\ stopTarget' = [stopTarget EXCEPT ![t] = 1]
  /\ stopCalls' = [stopCalls EXCEPT ![t] = @ + 1]
  /\ UNCHANGED << cliVars, worldVars, runnerVars, stopReturned, closeCount,
                  pidAttempts, retryVars, confVars, panicked >>

\* ------------------------------------------------------------------ Supervisor
Exit(code, cause) ==
  /\ cliPc' = "exited"
  /\ exitCode' = code
  /\ exitCause' = cause

\* The Supervisor calls runner.Stop() and continues at `then` when it returns.
CallStop(then) ==
  /\ cliPc' = then
  /\ stopPc' = [stopPc EXCEPT ![CliCaller] = "lock"]
  /\ stopTarget' = [stopTarget EXCEPT ![CliCaller] = cur]

\* Mutant of StartRunner: after the first one no new Runner is made; the
\* current one is started again.
StartRunnerReuse(g) ==
  LET n == IF cur = 0 THEN g ELSE cur
  IN /\ cur' = n
     /\ rPc' = [rPc EXCEPT ![n] = "start"]

\* manager.NewRunner + `go runner.Start()`: generation g comes to life.
StartRunner(g) ==
  /\ cur' = g
  /\ rPc' = [rPc EXCEPT ![g] = "start"]

\* Cli.Run from its entry to the loop: ParseFlags, loadConfigs, Finalize, setup,
\* the version flag, NewRunner, go Start, signal.Notify.
CliRun ==
  /\ Alive /\ cliPc = "run"
  /\ \E outcome \in {"help", "flag_err", "load_err", "setup_err", "version",
                     "runner_err", "ok"} :
       CASE outcome = "help" ->
              /\ Exit(0, "help") /\ UNCHANGED << cur, rPc >>
         [] outcome = "flag_err" ->
              /\ Exit(ExitCodeParseFlagsError, "flag_err") /\ UNCHANGED << cur, rPc >>
         [] outcome \in {"load_err", "setup_err"} ->
              /\ Exit(ExitCodeConfigError, "config_err") /\ UNCHANGED << cur, rPc >>
         [] outcome = "version" ->
              /\ Exit(ExitCodeOK, "version") /\ UNCHANGED << cur, rPc >>
         [] outcome = "runner_err" ->
              /\ Exit(ExitCodeRunnerError, "new_runner_err") /\ UNCHANGED << cur, rPc >>
         [] OTHER ->
              /\ StartRunner(1)
              /\ cliPc' = "select"
              /\ UNCHANGED << exitCode, exitCause >>
  /\ UNCHANGED << signalCh, sigCount, stopCh, cliStopped, procGone, worldVars, stopped, doneCh, stopLock, pendingErr, pass, hist, passCount,
                  stopVars, retryVars, confVars, panicked >>

\* Mutant of ErrExitCode: the error's exit status is ignored.
ErrExitCodeGeneric(err) == ExitCodeRunnerError

\* The exit status for a Runner error: the error's own, if it is ErrExitable.
ErrExitCode(err) == IF err.exitable THEN err.status ELSE ExitCodeRunnerError

\* case err := <-runner.ErrCh: the blocked sender of the current Runner is
\* released; the Supervisor returns at once.
CliRecvErr ==
  /\ Alive /\ cliPc = "select" /\ cur \in Gens
  /\ rPc[cur] \in {"pid_err_send", "init_err_send", "pass_err_send"}
  /\ Exit(ErrExitCode(pendingErr[cur]), "runner_err")
  /\ rPc' = [rPc EXCEPT ![cur] = AfterErrSend(rPc[cur])]
  /\ pendingErr' = [pendingErr EXCEPT ![cur] = NoErr]
  /\ hist' = IF rPc[cur] = "pass_err_send"
             THEN [hist EXCEPT ![cur] =
                     Append(@, PassRecord(pass[cur], ErrResult(pendingErr[cur]), FALSE))]
             ELSE hist
  /\ UNCHANGED << cur, signalCh, sigCount, stopCh, cliStopped, procGone, worldVars,
                  stopped, doneCh, stopLock, pass, passCount, stopVars,
                  retryVars, confVars, panicked >>

\* Mutant of CliRecvDone: return ExitCodeOK without stopping the Runner.
CliRecvDoneNoStop ==
  /\ Alive /\ cliPc = "select" /\ cur \in Gens
  /\ rPc[cur] = "done_send" /\ doneCh[cur] = "open"
  /\ rPc' = [rPc EXCEPT ![cur] = "loop"]
  /\ hist' = [hist EXCEPT ![cur] = Append(@, PassRecord(pass[cur], "ok", TRUE))]
  /\ Exit(ExitCodeOK, "done")
  /\ UNCHANGED << cur, signalCh, sigCount, stopCh, cliStopped, procGone, worldVars, stopped,
                  doneCh, stopLock, pendingErr, pass, passCount, stopVars, retryVars, confVars,
                  panicked >>

\* case <-runner.DoneCh: a value sent by the pass, or the zero value of a closed
\* channel; then runner.Stop().
CliRecvDone ==
  /\ Alive /\ cliPc = "select" /\ cur \in Gens
  /\ \/ /\ rPc[cur] = "done_send" /\ doneCh[cur] = "open"
        /\ rPc' = [rPc EXCEPT ![cur] = "loop"]
        /\ hist' = [hist EXCEPT ![cur] = Append(@, PassRecord(pass[cur], "ok", TRUE))]
     \/ /\ doneCh[cur] = "closed"
        /\ UNCHANGED << rPc, hist >>
  /\ CallStop("done_stop")
  /\ UNCHANGED << cur, signalCh, sigCount, stopCh, cliStopped, exitCode,
                  exitCause, procGone, worldVars, stopped, doneCh, stopLock, pendingErr,
                  pass, passCount, stopCalls, stopReturned, closeCount, pidAttempts,
                  retryVars, confVars, panicked >>

\* ... runner.Stop() has returned; return ExitCodeOK
CliDoneExit ==
  /\ Alive /\ cliPc = "done_stop" /\ stopPc[CliCaller] = "returned"
  /\ Exit(ExitCodeOK, "done")
  /\ stopPc' = [stopPc EXCEPT ![CliCaller] = "idle"]
  /\ UNCHANGED << cur, signalCh, sigCount, stopCh, cliStopped, procGone, worldVars,
                  runnerVars, stopTarget, stopCalls, stopReturned, closeCount,
                  pidAttempts, retryVars, confVars, panicked >>

\* Mutant of SignalBranch: only the kill signal ends the process; the default
\* branch falls into the reload.
SignalBranchKillOnly(s) == IF s = "kill" THEN "kill_stop" ELSE "reload_stop"

\* Which branch of `switch s` a signal takes.
SignalBranch(s) == IF s = "reload" THEN "reload_stop" ELSE "kill_stop"

\* case s := <-cli.signalCh: every branch of the switch begins with runner.Stop().
CliRecvSignal ==
  /\ Alive /\ cliPc = "select" /\ cur \in Gens /\ signalCh # <<>>
  /\ signalCh' = Tail(signalCh)
  /\ CallStop(SignalBranch(Head(signalCh)))
  /\ UNCHANGED << cur, sigCount, stopCh, cliStopped, exitCode, exitCause, procGone, worldVars,
                  runnerVars, stopCalls, stopReturned, closeCount, pidAttempts,
                  retryVars, confVars, panicked >>

\* case *config.KillSignal / default: Stop has returned; return ExitCodeInterrupt
CliKillExit ==
  /\ Alive /\ cliPc = "kill_stop" /\ stopPc[CliCaller] = "returned"
  /\ Exit(ExitCodeInterrupt, "signal")
  /\ stopPc' = [stopPc EXCEPT ![CliCaller] = "idle"]
  /\ UNCHANGED << cur, signalCh, sigCount, stopCh, cliStopped, procGone, worldVars,
                  runnerVars, stopTarget, stopCalls, stopReturned, closeCount,
                  pidAttempts, retryVars, confVars, panicked >>

\* case *config.ReloadSignal: Stop has returned; next the configuration is read.
CliReloadStopped ==
  /\ Alive /\ cliPc = "reload_stop" /\ stopPc[CliCaller] = "returned"
  /\ cliPc' = "reload_load"
  /\ stopPc' = [stopPc EXCEPT ![CliCaller] = "idle"]
  /\ UNCHANGED << cur, signalCh, sigCount, stopCh, cliStopped, exitCode,
                  exitCause, procGone, worldVars, runnerVars, stopTarget, stopCalls,
                  stopReturned, closeCount, pidAttempts, retryVars, confVars, panicked >>

\* Mutant of CliReloadLoad: a failed load or logging setup still installs and
\* starts a new Runner before returning.
CliReloadLoadStartAnyway ==
  /\ Alive /\ cliPc = "reload_load"
  /\ \E outcome \in {"load_err", "setup_err", "runner_err", "ok"} :
       CASE outcome \in {"load_err", "setup_err"} ->
              /\ cur < MaxGen
              /\ Exit(ExitCodeConfigError, "reload_config_err")
              /\ StartRunner(cur + 1)
         [] outcome = "runner_err" ->
              /\ Exit(ExitCodeRunnerError, "reload_runner_err") /\ UNCHANGED << cur, rPc >>
         [] OTHER ->
              /\ cur < MaxGen
              /\ StartRunner(cur + 1)
              /\ cliPc' = "select"
              /\ UNCHANGED << exitCode, exitCause >>
  /\ UNCHANGED << signalCh, sigCount, stopCh, cliStopped, procGone, worldVars,
                  stopped, doneCh, stopLock, pendingErr, pass, hist, passCount,
                  stopVars, retryVars, confVars, panicked >>

\* loadConfigs, Finalize, setup, NewRunner, go runner.Start(): back to the loop
\* with a new current Runner, or return on the first failure.
CliReloadLoad ==
  /\ Alive /\ cliPc = "reload_load"
  /\ \E outcome \in {"load_err", "setup_err", "runner_err", "ok"} :
       CASE outcome \in {"load_err", "setup_err"} ->
              /\ Exit(ExitCodeConfigError, "reload_config_err") /\ UNCHANGED << cur, rPc >>
         [] outcome = "runner_err" ->
              /\ Exit(ExitCodeRunnerError, "reload_runner_err") /\ UNCHANGED << cur, rPc >>
         [] OTHER ->
              /\ cur < MaxGen
              /\ StartRunner(cur + 1)
              /\ cliPc' = "select"
              /\ UNCHANGED << exitCode, exitCause >>
  /\ UNCHANGED << signalCh, sigCount, stopCh, cliStopped, procGone, worldVars, stopped, doneCh, stopLock, pendingErr, pass, hist, passCount,
                  stopVars, retryVars, confVars, panicked >>

\* case <-cli.stopCh: return ExitCodeOK
CliRecvStop ==
  /\ Alive /\ cliPc = "select" /\ stopCh = "closed"
  /\ Exit(ExitCodeOK, "stop")
  /\ UNCHANGED << cur, signalCh, sigCount, stopCh, cliStopped, procGone, worldVars,
                  runnerVars, stopVars, retryVars, confVars, panicked >>

\* Cli.stop(), called from outside the loop: closes stopCh once, under the mutex.
CliStop ==
  /\ Alive /\ cliPc \notin {"run", "exited"}
  /\ IF cliStopped
     THEN UNCHANGED << stopCh, cliStopped >>
     ELSE /\ stopCh' = "closed"
          /\ cliStopped' = TRUE
  /\ UNCHANGED << cliPc, cur, signalCh, sigCount, exitCode, exitCause,
                  procGone, worldVars, runnerVars, stopVars, retryVars, confVars, panicked >>

\* Mutant of OsSignal: the signal channel is unbuffered (make(chan os.Signal)):
\* a signal is handed over only to a Supervisor waiting in its select.
OsSignalUnbuffered(s) ==
  /\ Alive /\ cliPc \notin {"run", "exited"} /\ sigCount < MaxSignals
  /\ sigCount' = sigCount + 1
  /\ signalCh' = IF Len(signalCh) < 1 /\ cliPc = "select"
                 THEN Append(signalCh, s) ELSE signalCh
  /\ UNCHANGED << cliPc, cur, stopCh, cliStopped, exitCode, exitCause,
                  procGone, worldVars, runnerVars, stopVars, retryVars, confVars, panicked >>

\* signal.Notify(cli.signalCh): the runtime delivers without blocking; a signal
\* that finds the channel full is dropped.
OsSignal(s) ==
  /\ Alive /\ cliPc \notin {"run", "exited"} /\ sigCount < MaxSignals
  /\ sigCount' = sigCount + 1
  /\ signalCh' = IF Len(signalCh) < 1 THEN Append(signalCh, s) ELSE signalCh
  /\ UNCHANGED << cliPc, cur, stopCh, cliStopped, exitCode, exitCause,
                  procGone, worldVars, runnerVars, stopVars, retryVars, confVars, panicked >>

\* The caller of Cli.Run ends the process with the status Run returned
\* (os.Exit): the process and all its goroutines end.
OsExit ==
  /\ Alive /\ cliPc = "exited"
  /\ procGone' = TRUE
  /\ UNCHANGED << cliPc, cur, signalCh, sigCount, stopCh, cliStopped, exitCode,
                  exitCause, worldVars, runnerVars, stopVars, retryVars, confVars, panicked >>

\* ------------------------------------------------------------------ retry policy
RECURSIVE Pow2(_)
Pow2(n) == IF n <= 0 THEN 1 ELSE 2 * Pow2(n - 1)

\* floor(log2(n / d)) for n >= d > 0.
RECURSIVE FloorLog2(_, _)
FloorLog2(n, d) == IF 2 * d > n THEN 0 ELSE 1 + FloorLog2(n, 2 * d)

\* int(math.Log2(maxSleep.Seconds() / baseSleep.Seconds())): the conversion to
\* int truncates toward zero, so a ratio below 1 gives -floor(log2(base / max)).
AttemptsTillMaxBackoff(maxSleep, baseSleep) ==
  IF maxSleep >= baseSleep
  THEN FloorLog2(maxSleep, baseSleep)
  ELSE 0 - FloorLog2(baseSleep, maxSleep)

\* Mutant of RetryFunc: the attempts cap is compared one too high.
RetryFuncCapOffByOne(c, retry) ==
  IF ~c.enabled THEN [retry |-> FALSE, wait |-> 0]
  ELSE IF c.attempts > 0 /\ retry > c.attempts THEN [retry |-> FALSE, wait |-> 0]
  ELSE IF c.maxBackoff > 0 /\ retry > AttemptsTillMaxBackoff(c.maxBackoff, c.backoff)
  THEN [retry |-> TRUE, wait |-> c.maxBackoff]
  ELSE [retry |-> TRUE, wait |-> Pow2(retry) * c.backoff]

\* Mutant of RetryFunc: the clamp sets in one attempt early.
RetryFuncClampEarly(c, retry) ==
  IF ~c.enabled THEN [retry |-> FALSE, wait |-> 0]
  ELSE IF c.attempts > 0 /\ retry > c.attempts - 1 THEN [retry |-> FALSE, wait |-> 0]
  ELSE IF c.maxBackoff > 0 /\ retry >= AttemptsTillMaxBackoff(c.maxBackoff, c.backoff)
  THEN [retry |-> TRUE, wait |-> c.maxBackoff]
  ELSE [retry |-> TRUE, wait |-> Pow2(retry) * c.backoff]

\* The function returned by RetryConfig.RetryFunc, applied to `retry`.
RetryFunc(c, retry) ==
  IF ~c.enabled THEN [retry |-> FALSE, wait |-> 0]
  ELSE IF c.attempts > 0 /\ retry > c.attempts - 1 THEN [retry |-> FALSE, wait |-> 0]
  ELSE IF c.maxBackoff > 0 /\ retry > AttemptsTillMaxBackoff(c.maxBackoff, c.backoff)
  THEN [retry |-> TRUE, wait |-> c.maxBackoff]
  ELSE [retry |-> TRUE, wait |-> Pow2(retry) * c.backoff]

RetryConfigs ==
  [enabled : BOOLEAN, attempts : 0..MaxRetry, backoff : 1..MaxBackoffUnits,
   maxBackoff : 0..MaxBackoffUnits]

\* A caller evaluates the retry function at an attempt index.
RetryCall ==
  /\ \E i \in 0..MaxRetry :
       /\ retryIdx' = i
       /\ retryRes' = RetryFunc(retryCfg, i)
  /\ UNCHANGED << retryCfg, cliVars, worldVars, runnerVars, stopVars, confVars,
                  panicked >>

\* ------------------------------------------------------------------ configuration
\* A pointer to a scalar (*string, *time.Duration, *os.Signal, ...) is never
\* written through: it is Nil or the one-element sequence of its value. A
\* pointer to a struct is an address in `heap`, 0 for nil.
Nil == <<>>
Some(v) == <<v>>

\* The fields of Config that are scalars, of ConsulConfig, RetryConfig and
\* SyslogConfig. (Auth, SSL and Transport of ConsulConfig are sub-structs
\* treated exactly as Retry is; they are left out.)
\* A field is named by its path from the Config.
ConfigScalars ==
  { <<"KillSignal">>, <<"LogLevel">>, <<"PidFile">>, <<"ReloadSignal">>,
    <<"From">>, <<"To">>, <<"Interval">> }
ConsulScalars == { <<"Consul", "Address">>, <<"Consul", "Token">> }
RetryScalars ==
  { <<"Consul", "Retry", f>> : f \in {"Attempts", "Backoff", "MaxBackoff", "Enabled"} }
SyslogScalars == { <<"Syslog", "Enabled">>, <<"Syslog", "Facility">> }
Fields == ConfigScalars \cup ConsulScalars \cup RetryScalars \cup SyslogScalars

\* &T{...}: a new struct at a fresh address.
New(h, rec) == [h |-> Append(h, rec), p |-> Len(h) + 1]
NilPtr(h) == [h |-> h, p |-> 0]

\* `if o.X != nil { r.X = o.X }`
Pick(r, o) == IF o # Nil THEN o ELSE r

EmptyRetry == [Attempts |-> Nil, Backoff |-> Nil, MaxBackoff |-> Nil, Enabled |-> Nil]
EmptySyslog == [Enabled |-> Nil, Facility |-> Nil]
EmptyConsul == [Address |-> Nil, Retry |-> 0, Token |-> Nil]
EmptyConfig ==
  [Consul |-> 0, KillSignal |-> Nil, LogLevel |-> Nil, PidFile |-> Nil,
   ReloadSignal |-> Nil, Syslog |-> 0, From |-> Nil, To |-> Nil, Interval |-> Nil]

\* RetryConfig.Copy
RetryConfigCopy(h, c) == IF c = 0 THEN NilPtr(h) ELSE New(h, h[c])

\* RetryConfig.Merge
RetryConfigMerge(h, c, o) ==
  IF c = 0 THEN RetryConfigCopy(h, o)
  ELSE IF o = 0 THEN RetryConfigCopy(h, c)
  ELSE LET r == RetryConfigCopy(h, c)
       IN [h |-> [r.h EXCEPT ![r.p] =
                    [Attempts |-> Pick(@.Attempts, h[o].Attempts),
                     Backoff |-> Pick(@.Backoff, h[o].Backoff),
                     MaxBackoff |-> Pick(@.MaxBackoff, h[o].MaxBackoff),
                     Enabled |-> Pick(@.Enabled, h[o].Enabled)]],
           p |-> r.p]

\* RetryConfig.Finalize (in place)
RetryConfigFinalize(h, c) ==
  [h EXCEPT ![c] =
     [Attempts |-> Pick(Some("12"), @.Attempts),
      Backoff |-> Pick(Some("250ms"), @.Backoff),
      MaxBackoff |-> Pick(Some("1m"), @.MaxBackoff),
      Enabled |-> Pick(Some("true"), @.Enabled)]]

\* SyslogConfig.Copy
SyslogConfigCopy(h, c) == IF c = 0 THEN NilPtr(h) ELSE New(h, h[c])

\* SyslogConfig.Merge
SyslogConfigMerge(h, c, o) ==
  IF c = 0 THEN SyslogConfigCopy(h, o)
  ELSE IF o = 0 THEN SyslogConfigCopy(h, c)
  ELSE LET r == SyslogConfigCopy(h, c)
       IN [h |-> [r.h EXCEPT ![r.p] =
                    [Enabled |-> Pick(@.Enabled, h[o].Enabled),
                     Facility |-> Pick(@.Facility, h[o].Facility)]],
           p |-> r.p]

\* StringPresent: non-nil and not the empty string.
StringPresent(s) == s # Nil /\ s # Some("")

\* SyslogConfig.Finalize (in place): Enabled defaults to "a facility was
\* given", then Facility to LOCAL0.
SyslogConfigFinalize(h, c) ==
  [h EXCEPT ![c] =
     [Enabled |-> Pick(Some(IF StringPresent(@.Facility) THEN "true" ELSE "false"),
                       @.Enabled),
      Facility |-> Pick(Some("LOCAL0"), @.Facility)]]

\* DefaultConsulConfig: &ConsulConfig{Retry: DefaultRetryConfig(), ...}
DefaultConsulConfig(h) ==
  LET rt == New(h, EmptyRetry)
  IN New(rt.h, [EmptyConsul EXCEPT !.Retry = rt.p])

\* ConsulConfig.Copy: the sub-structs are copied, the scalars shared.
ConsulConfigCopy(h, c) ==
  IF c = 0 THEN NilPtr(h)
  ELSE LET rt == RetryConfigCopy(h, h[c].Retry)
       IN New(rt.h, [h[c] EXCEPT !.Retry = rt.p])

\* ConsulConfig.Merge
ConsulConfigMerge(h, c, o) ==
  IF c = 0 THEN ConsulConfigCopy(h, o)
  ELSE IF o = 0 THEN ConsulConfigCopy(h, c)
  ELSE LET r == ConsulConfigCopy(h, c)
           rt == IF h[o].Retry # 0
                 THEN RetryConfigMerge(r.h, r.h[r.p].Retry, h[o].Retry)
                 ELSE [h |-> r.h, p |-> r.h[r.p].Retry]
       IN [h |-> [rt.h EXCEPT ![r.p] =
                    [Address |-> Pick(@.Address, h[o].Address),
                     Retry |-> rt.p,
                     Token |-> Pick(@.Token, h[o].Token)]],
           p |-> r.p]

\* ConsulConfig.Finalize (in place; the environment variables are unset, so
\* stringFromEnv gives its default "").
ConsulConfigFinalize(h, c) ==
  LET rt == IF h[c].Retry = 0 THEN New(h, EmptyRetry) ELSE [h |-> h, p |-> h[c].Retry]
      h1 == RetryConfigFinalize(rt.h, rt.p)
  IN [h1 EXCEPT ![c] =
        [Address |-> Pick(Some(""), @.Address),
         Retry |-> rt.p,
         Token |-> Pick(Some(""), @.Token)]]

\* DefaultConfig
DefaultConfig(h) ==
  LET cs == DefaultConsulConfig(h)
      sy == New(cs.h, EmptySyslog)
  IN New(sy.h, [EmptyConfig EXCEPT !.Consul = cs.p, !.Syslog = sy.p,
                                   !.From = Some("/"), !.To = Some("./"),
                                   !.Interval = Some("1s")])

\* Config.Copy (c is not nil: a nil receiver would panic; no caller passes one)
ConfigCopy(h, c) ==
  LET cs == ConsulConfigCopy(h, h[c].Consul)
      sy == SyslogConfigCopy(cs.h, h[c].Syslog)
  IN New(sy.h, [h[c] EXCEPT !.Consul = cs.p, !.Syslog = sy.p])

\* Mutant of ConfigMerge: the receiver itself is updated, not a copy of it.
ConfigMergeInPlace(h, c, o) ==
  IF c = 0 THEN (IF o = 0 THEN NilPtr(h) ELSE ConfigCopy(h, o))
  ELSE IF o = 0 THEN ConfigCopy(h, c)
  ELSE LET cs == IF h[o].Consul # 0
                 THEN ConsulConfigMerge(h, h[c].Consul, h[o].Consul)
                 ELSE [h |-> h, p |-> h[c].Consul]
           sy == IF h[o].Syslog # 0
                 THEN SyslogConfigMerge(cs.h, h[c].Syslog, h[o].Syslog)
                 ELSE [h |-> cs.h, p |-> h[c].Syslog]
       IN [h |-> [sy.h EXCEPT ![c] =
                    [Consul |-> cs.p,
                     KillSignal |-> Pick(@.KillSignal, h[o].KillSignal),
                     LogLevel |-> Pick(@.LogLevel, h[o].LogLevel),
                     PidFile |-> Pick(@.PidFile, h[o].PidFile),
                     ReloadSignal |-> Pick(@.ReloadSignal, h[o].ReloadSignal),
                     Syslog |-> sy.p,
                     From |-> Pick(@.From, h[o].From),
                     To |-> Pick(@.To, h[o].To),
                     Interval |-> Pick(@.Interval, h[o].Interval)]],
           p |-> c]

\* Config.Merge
ConfigMerge(h, c, o) ==
  IF c = 0 THEN (IF o = 0 THEN NilPtr(h) ELSE ConfigCopy(h, o))
  ELSE IF o = 0 THEN ConfigCopy(h, c)
  ELSE LET r == ConfigCopy(h, c)
           cs == IF h[o].Consul # 0
                 THEN ConsulConfigMerge(r.h, r.h[r.p].Consul, h[o].Consul)
                 ELSE [h |-> r.h, p |-> r.h[r.p].Consul]
           sy == IF h[o].Syslog # 0
                 THEN SyslogConfigMerge(cs.h, r.h[r.p].Syslog, h[o].Syslog)
                 ELSE [h |-> cs.h, p |-> r.h[r.p].Syslog]
       IN [h |-> [sy.h EXCEPT ![r.p] =
                    [Consul |-> cs.p,
                     KillSignal |-> Pick(@.KillSignal, h[o].KillSignal),
                     LogLevel |-> Pick(@.LogLevel, h[o].LogLevel),
                     PidFile |-> Pick(@.PidFile, h[o].PidFile),
                     ReloadSignal |-> Pick(@.ReloadSignal, h[o].ReloadSignal),
                     Syslog |-> sy.p,
                     From |-> Pick(@.From, h[o].From),
                     To |-> Pick(@.To, h[o].To),
                     Interval |-> Pick(@.Interval, h[o].Interval)]],
           p |-> r.p]

\* Config.Finalize (in place; CT_LOG is unset). Interval is not among the
\* fields it fills.
ConfigFinalize(h, c) ==
  LET cs == IF h[c].Consul = 0 THEN DefaultConsulConfig(h)
            ELSE [h |-> h, p |-> h[c].Consul]
      h1 == ConsulConfigFinalize(cs.h, cs.p)
      sy == IF h[c].Syslog = 0 THEN New(h1, EmptySyslog)
            ELSE [h |-> h1, p |-> h[c].Syslog]
      h2 == SyslogConfigFinalize(sy.h, sy.p)
  IN [h2 EXCEPT ![c] =
        [Consul |-> cs.p,
         KillSignal |-> Pick(Some("SIGINT"), @.KillSignal),
         LogLevel |-> Pick(Some("WARN"), @.LogLevel),
         PidFile |-> Pick(Some(""), @.PidFile),
         ReloadSignal |-> Pick(Some("SIGHUP"), @.ReloadSignal),
         Syslog |-> sy.p,
         From |-> Pick(Some("/"), @.From),
         To |-> Pick(Some("./"), @.To),
         Interval |-> @.Interval]]

\* What reflect.DeepEqual looks at: the struct behind a pointer with the
\* structs behind its fields, Nil for a nil pointer.
DeepRetry(h, p) == IF p = 0 THEN Nil ELSE Some(h[p])
DeepSyslog(h, p) == IF p = 0 THEN Nil ELSE Some(h[p])
DeepConsul(h, p) ==
  IF p = 0 THEN Nil ELSE Some([h[p] EXCEPT !.Retry = DeepRetry(h, h[p].Retry)])
DeepConfig(h, p) ==
  IF p = 0 THEN Nil
  ELSE Some([h[p] EXCEPT !.Consul = DeepConsul(h, h[p].Consul),
                         !.Syslog = DeepSyslog(h, h[p].Syslog)])

\* The addresses of the structs reachable from the Config at p.
Reach(h, p) ==
  IF p = 0 THEN {}
  ELSE LET cs == h[p].Consul
       IN ({p, cs, h[p].Syslog} \cup (IF cs = 0 THEN {} ELSE {h[cs].Retry})) \ {0}

\* The value of the field `path` in a deep value; Nil when the field or a
\* struct on the way to it is nil.
RECURSIVE Get(_, _)
Get(v, path) ==
  IF v = Nil THEN Nil
  ELSE IF Len(path) = 1 THEN v[1][path[1]]
  ELSE Get(v[1][path[1]], Tail(path))

\* ---- inputs

\* The subsets of U with at most n elements.
RECURSIVE SubsetsUpTo(_, _)
SubsetsUpTo(U, n) ==
  IF n = 0 THEN {{}}
  ELSE LET prev == SubsetsUpTo(U, n - 1)
       IN prev \cup {S \cup {x} : S \in prev, x \in U}

Opt(S, path, tag) == IF path \in S THEN Some(tag) ELSE Nil

\* The Config a source decodes to when it sets exactly the fields S, each to
\* the value `tag` (which names the source). A block with no field set is
\* absent, or present and empty when `blocks` holds.
ParsedRetry(S, tag, blocks) ==
  IF blocks \/ S \cap RetryScalars # {}
  THEN Some([Attempts |-> Opt(S, <<"Consul", "Retry", "Attempts">>, tag),
             Backoff |-> Opt(S, <<"Consul", "Retry", "Backoff">>, tag),
             MaxBackoff |-> Opt(S, <<"Consul", "Retry", "MaxBackoff">>, tag),
             Enabled |-> Opt(S, <<"Consul", "Retry", "Enabled">>, tag)])
  ELSE Nil
ParsedSyslog(S, tag, blocks) ==
  IF blocks \/ S \cap SyslogScalars # {}
  THEN Some([Enabled |-> Opt(S, <<"Syslog", "Enabled">>, tag),
             Facility |-> Opt(S, <<"Syslog", "Facility">>, tag)])
  ELSE Nil
ParsedConsul(S, tag, blocks) ==
  IF blocks \/ S \cap (ConsulScalars \cup RetryScalars) # {}
  THEN Some([Address |-> Opt(S, <<"Consul", "Address">>, tag),
             Retry |-> ParsedRetry(S, tag, blocks),
             Token |-> Opt(S, <<"Consul", "Token">>, tag)])
  ELSE Nil
Parsed(S, tag, blocks) ==
  Some([Consul |-> ParsedConsul(S, tag, blocks),
        KillSignal |-> Opt(S, <<"KillSignal">>, tag),
        LogLevel |-> Opt(S, <<"LogLevel">>, tag),
        PidFile |-> Opt(S, <<"PidFile">>, tag),
        ReloadSignal |-> Opt(S, <<"ReloadSignal">>, tag),
        Syslog |-> ParsedSyslog(S, tag, blocks),
        From |-> Opt(S, <<"From">>, tag),
        To |-> Opt(S, <<"To">>, tag),
        Interval |-> Opt(S, <<"Interval">>, tag)])

\* Operands for Merge and Finalize: nil, or a Config with few fields set.
InputConfigs(tag) ==
  {Nil} \cup {Parsed(S, tag, blocks) :
                S \in SubsetsUpTo(Fields, MaxSetFields), blocks \in BOOLEAN}

\* The decoded Config as structs in memory (what Parse returns).
StoreRetry(h, v) == IF v = Nil THEN NilPtr(h) ELSE New(h, v[1])
StoreSyslog(h, v) == IF v = Nil THEN NilPtr(h) ELSE New(h, v[1])
StoreConsul(h, v) ==
  IF v = Nil THEN NilPtr(h)
  ELSE LET rt == StoreRetry(h, v[1].Retry)
       IN New(rt.h, [v[1] EXCEPT !.Retry = rt.p])
Store(h, v) ==
  IF v = Nil THEN NilPtr(h)
  ELSE LET cs == StoreConsul(h, v[1].Consul)
           sy == StoreSyslog(cs.h, v[1].Syslog)
       IN New(sy.h, [v[1] EXCEPT !.Consul = cs.p, !.Syslog = sy.p])

\* ---- resolution
\* A flag's handler: the assignment to the field of c, of c.Consul, of
\* c.Consul.Retry or of c.Syslog.
SetField(h, c, path, val) ==
  LET at == IF Len(path) = 1 THEN c
            ELSE IF path[1] = "Syslog" THEN h[c].Syslog
            ELSE IF Len(path) = 2 THEN h[c].Consul
            ELSE h[h[c].Consul].Retry
  IN [h EXCEPT ![at][path[Len(path)]] = val]

RECURSIVE SetFields(_, _, _, _)
SetFields(h, c, S, val) ==
  IF S = {} THEN h
  ELSE LET path == CHOOSE x \in S : TRUE
       IN SetFields(SetField(h, c, path, val), c, S \ {path}, val)

\* Cli.ParseFlags with CT_LOCAL_CONFIG unset: DefaultConfig, then the flags
\* given.
ParseFlags(h, flags) ==
  CHOOSE r \in { [h |-> SetFields(c.h, c.p, flags, Some("flag")), p |-> c.p] :
                   c \in {DefaultConfig(h)} } : TRUE

\* The loop of loadConfigs over the paths: FromPath, then Merge. The result
\* is given as a one-element set, each intermediate value bound once.
RECURSIVE MergePaths(_, _, _)
MergePaths(h, finalC, files) ==
  IF files = <<>> THEN {[h |-> h, p |-> finalC]}
  ELSE UNION { UNION { MergePaths(m.h, m.p, Tail(files)) :
                         m \in {ConfigMerge(c.h, finalC, c.p)} } :
                 c \in {Store(h, Head(files))} }

\* Mutant of loadConfigs: without paths the base configuration itself is
\* returned (and finalized), not a merge of it.
loadConfigsShareBase(h, files, o) ==
  IF files = <<>> THEN {[h |-> ConfigFinalize(h, o), p |-> o]}
  ELSE UNION { UNION { { [h |-> ConfigFinalize(m.h, m.p), p |-> m.p] :
                           m \in {ConfigMerge(f.h, f.p, o)} } :
                         f \in MergePaths(d.h, d.p, files) } :
                 d \in {DefaultConfig(h)} }

\* loadConfigs(paths, o), every path readable: DefaultConfig, the paths, o,
\* Finalize. A one-element set, as above.
loadConfigs(h, files, o) ==
  UNION { UNION { { [h |-> ConfigFinalize(m.h, m.p), p |-> m.p] :
                      m \in {ConfigMerge(f.h, f.p, o)} } :
                    f \in MergePaths(d.h, d.p, files) } :
            d \in {DefaultConfig(h)} }

\* NewRunner -> Runner.init: r.config = DefaultConfig().Merge(r.config), then
\* r.config.Finalize(). The memory after it, as a one-element set.
RunnerInit(h, c) ==
  UNION { { ConfigFinalize(m.h, m.p) : m \in {ConfigMerge(d.h, d.p, c)} } :
            d \in {DefaultConfig(h)} }

PathTags == << "path1", "path2", "path3", "path4" >>

\* The fields the sources of a resolution may set: one the defaults of
\* DefaultConfig cover, one plain scalar, one in a sub-struct.
ResolveFields == { <<"From">>, <<"Interval">>, <<"PidFile">>, <<"Consul", "Address">> }

\* What the i-th -config path can hold: nothing (an empty directory), or a
\* configuration setting few fields.
FileConfigs(i) ==
  {Nil} \cup {Parsed(S, PathTags[i], FALSE) :
                S \in SubsetsUpTo(ResolveFields, MaxSetFields)}

RECURSIVE FileSeqs(_)
FileSeqs(n) ==
  IF n = 0 THEN {<<>>}
  ELSE LET prev == FileSeqs(n - 1)
       IN prev \cup {Append(seq, c) : seq \in {x \in prev : Len(x) = n - 1},
                                      c \in FileConfigs(n)}

\* c := a.Merge(b)
ApplyMerge ==
  /\ cfgOp = "none" /\ cfgFlags = {} /\ cfgFiles = <<>>
  /\ LET r == ConfigMerge(heap, cfgA, cfgB)
     IN heap' = r.h /\ cfgOut' = r.p
  /\ cfgOp' = "merge"
  /\ UNCHANGED << cfgA, cfgB, cfgFlags, cfgFiles, cfgCli, cfgLoads, cliVars,
                  worldVars, runnerVars, stopVars, retryVars, panicked >>

\* a.Finalize()
ApplyFinalize ==
  /\ cfgOp = "none" /\ cfgA # 0
  /\ heap' = ConfigFinalize(heap, cfgA)
  /\ cfgOut' = cfgA
  /\ cfgOp' = "finalize"
  /\ UNCHANGED << cfgA, cfgB, cfgFlags, cfgFiles, cfgCli, cfgLoads, cliVars,
                  worldVars, runnerVars, stopVars, retryVars, panicked >>

\* Cli.Run at startup: ParseFlags, cliConfig := config.Copy(), loadConfigs,
\* config.Finalize(), NewRunner.
Resolve ==
  /\ cfgOp = "none" /\ heap = <<>>
  /\ \E c \in {ParseFlags(heap, cfgFlags)} :
       \E cli \in {ConfigCopy(c.h, c.p)} :
         \E r \in loadConfigs(cli.h, cfgFiles, cli.p) :
           \E h1 \in {ConfigFinalize(r.h, r.p)} :
             /\ heap' \in RunnerInit(h1, r.p)
             /\ cfgCli' = cli.p
             /\ cfgOut' = r.p
  /\ cfgOp' = "resolve"
  /\ cfgLoads' = 1
  /\ UNCHANGED << cfgA, cfgB, cfgFlags, cfgFiles, cliVars, worldVars,
                  runnerVars, stopVars, retryVars, panicked >>

\* Cli.Run on the reload signal: loadConfigs(paths, cliConfig),
\* config.Finalize() and NewRunner. The paths are read again: the last one may
\* have been emptied in the meantime.
Reload ==
  /\ cfgOp \in {"resolve", "reload"} /\ cfgLoads <= MaxReloads
  /\ \E files \in {cfgFiles} \cup
                  (IF cfgFiles = <<>> THEN {}
                   ELSE {[cfgFiles EXCEPT ![Len(cfgFiles)] = Nil]}) :
       /\ cfgFiles' = files
       /\ \E r \in loadConfigs(heap, files, cfgCli) :
            \E h1 \in {ConfigFinalize(r.h, r.p)} :
              /\ heap' \in RunnerInit(h1, r.p)
              /\ cfgOut' = r.p
  /\ cfgOp' = "reload"
  /\ cfgLoads' = cfgLoads + 1
  /\ UNCHANGED << cfgA, cfgB, cfgFlags, cfgCli, cliVars, worldVars,
                  runnerVars, stopVars, retryVars, panicked >>

\* ------------------------------------------------------------------ specifications
MainListings == {<<[Key |-> KeyOrder[1], Value |-> "1"]>>}

InitCli ==
  /\ signalCh = <<>> /\ sigCount = 0
  /\ stopCh = "open" /\ cliStopped = FALSE
  /\ exitCode = 0 /\ exitCause = "none" /\ panicked = FALSE
  /\ procGone = FALSE

InitRunners ==
  /\ stopped = [g \in Gens |-> FALSE]
  /\ doneCh = [g \in Gens |-> "open"]
  /\ stopLock = [g \in Gens |-> {}]
  /\ pendingErr = [g \in Gens |-> NoErr]
  /\ pass = [g \in Gens |-> NoPass]
  /\ hist = [g \in Gens |-> <<>>]
  /\ passCount = [g \in Gens |-> 0]
  /\ stopPc = [c \in Callers |-> "idle"]
  /\ stopTarget = [c \in Callers |-> 1]
  /\ stopCalls = [c \in Callers |-> 0]
  /\ stopReturned = [g \in Gens |-> 0]
  /\ closeCount = [g \in Gens |-> 0]
  /\ pidAttempts = [g \in Gens |-> 0]

InitNoRetry == retryCfg = NoRetry /\ retryIdx = 0 /\ retryRes = NoResult

\* No configuration under evaluation.
InitNoConf ==
  /\ heap = <<>> /\ cfgA = 0 /\ cfgB = 0 /\ cfgOut = 0 /\ cfgOp = "none"
  /\ cfgFlags = {} /\ cfgFiles = <<>> /\ cfgCli = 0 /\ cfgLoads = 0

\* The first Runner has been created and `go runner.Start()` issued.
InitStarted ==
  /\ cliPc = "select" /\ cur = 1
  /\ rPc = [g \in Gens |-> IF g = 1 THEN "start" ELSE "none"]

\* The process at the entry of Cli.Run.
Init ==
  /\ cliPc = "run" /\ cur = 0
  /\ rPc = [g \in Gens |-> "none"]
  /\ InitCli /\ InitRunners /\ InitNoRetry /\ InitNoConf
  /\ dry \in BOOLEAN /\ once \in BOOLEAN
  /\ pidPath \in {"", "pid"} /\ pidFile = FALSE
  /\ remote \in MainListings
  /\ fs = [n \in Names |-> NoFile]
  /\ toDir = TRUE
  /\ passLimit = MaxPasses

RunnerStep(g) ==
  \/ RunnerStart(g) \/ RunnerNewProcessor(g) \/ LoopTick(g)
  \/ LoopDone(g) \/ ProcessList(g) \/ ProcessEntry(g) \/ ProcessFinish(g)
  \/ SendOnClosed(g)

StopStep(c) == StopLock(c) \/ StopCheck(c) \/ StopDeletePid(c) \/ StopClose(c)

Next ==
  \/ CliRun \/ CliRecvErr \/ CliRecvDone \/ CliDoneExit \/ CliRecvSignal
  \/ CliKillExit \/ CliReloadStopped \/ CliReloadLoad \/ CliRecvStop \/ CliStop
  \/ OsExit
  \/ \E s \in Signals : OsSignal(s)
  \/ StopStep(CliCaller)
  \/ \E g \in Gens : RunnerStep(g)

Spec == Init /\ [][Next]_vars

\* The main goroutine: the steps of Cli.Run, of the Stop it calls, and os.Exit.
CliStep ==
  \/ CliRun \/ CliRecvErr \/ CliRecvDone \/ CliDoneExit \/ CliRecvSignal
  \/ CliKillExit \/ CliReloadStopped \/ CliReloadLoad \/ CliRecvStop
  \/ StopStep(CliCaller) \/ OsExit

\* The Go scheduler lets every goroutine that can take a step take one: the
\* Supervisor and each Runner's loop (whose ticker keeps firing). Signals and
\* calls of Cli.stop come from outside and are not forced.
Fairness == WF_vars(CliStep) /\ \A g \in Gens : WF_vars(RunnerStep(g))

\* The whole process under fair scheduling, with room for one pass of each
\* generation.
InitLive ==
  /\ cliPc = "run" /\ cur = 0
  /\ rPc = [g \in Gens |-> "none"]
  /\ InitCli /\ InitRunners /\ InitNoRetry /\ InitNoConf
  /\ dry = FALSE /\ once \in BOOLEAN
  /\ pidPath = "pid" /\ pidFile = FALSE
  /\ remote \in MainListings
  /\ fs = [n \in Names |-> NoFile]
  /\ toDir = TRUE
  /\ passLimit = MaxLivePasses

SpecLive == InitLive /\ [][Next]_vars /\ Fairness

\* The whole process under fair scheduling, without a PID file: the
\* Supervisor and the signals it is sent.
InitSignal ==
  /\ cliPc = "run" /\ cur = 0
  /\ rPc = [g \in Gens |-> "none"]
  /\ InitCli /\ InitRunners /\ InitNoRetry /\ InitNoConf
  /\ dry = FALSE /\ once \in BOOLEAN
  /\ pidPath = "" /\ pidFile = FALSE
  /\ remote \in MainListings
  /\ fs = [n \in Names |-> NoFile]
  /\ toDir = TRUE
  /\ passLimit = MaxPasses

SpecSignal == InitSignal /\ [][Next]_vars /\ Fairness

\* One Runner and its Supervisor, no signals: the passes of the Processor over
\* every small listing and destination directory, keys being deleted from the
\* store meanwhile.
InitPass ==
  /\ InitStarted /\ InitCli /\ InitRunners /\ InitNoRetry /\ InitNoConf
  /\ dry \in BOOLEAN /\ once \in BOOLEAN
  /\ pidPath = "" /\ pidFile = FALSE
  /\ remote \in Listings
  /\ fs \in [Names -> Payloads \cup {NoFile}]
  /\ toDir \in BOOLEAN
  /\ (toDir \/ fs = [n \in Names |-> NoFile])   \* no directory, no files
  /\ passLimit = MaxSeqPasses

NextPass ==
  \/ RunnerStep(1) \/ StoreRemove
  \/ CliRecvErr \/ CliRecvDone \/ CliDoneExit \/ OsExit
  \/ StopStep(CliCaller)

SpecPass == InitPass /\ [][NextPass]_vars

\* One Runner, started, and callers that call Stop on it concurrently.
InitStop ==
  /\ InitStarted /\ InitCli /\ InitRunners /\ InitNoRetry /\ InitNoConf
  /\ dry = FALSE /\ once \in BOOLEAN
  /\ pidPath \in {"", "pid"} /\ pidFile = FALSE
  /\ remote \in MainListings
  /\ fs = [n \in Names |-> NoFile]
  /\ toDir = TRUE
  /\ passLimit = MaxPasses

NextStop ==
  \/ \E t \in Testers : TesterCallStop(t) \/ StopStep(t)
  \/ RunnerStep(1)

SpecStop == InitStop /\ [][NextStop]_vars

\* The retry function over every small policy.
InitRetry ==
  /\ InitStarted /\ InitCli /\ InitRunners
  /\ dry = FALSE /\ once = FALSE /\ pidPath = "" /\ pidFile = FALSE
  /\ remote = <<>> /\ fs = [n \in Names |-> NoFile] /\ toDir = TRUE
  /\ passLimit = MaxPasses
  /\ retryCfg \in RetryConfigs /\ retryIdx = 0
  /\ retryRes = NoResult
  /\ InitNoConf

NextRetry == RetryCall

SpecRetry == InitRetry /\ [][NextRetry]_vars

\* Configurations: Merge and Finalize over small operands, and the resolution
\* of Cli.Run (startup and reloads) over small sets of flags and files.
InitConfig ==
  /\ InitStarted /\ InitCli /\ InitRunners /\ InitNoRetry
  /\ dry = FALSE /\ once = FALSE /\ pidPath = "" /\ pidFile = FALSE
  /\ remote = <<>> /\ fs = [n \in Names |-> NoFile] /\ toDir = TRUE
  /\ passLimit = MaxPasses
  /\ cfgOut = 0 /\ cfgOp = "none" /\ cfgCli = 0 /\ cfgLoads = 0
  /\ \/ /\ cfgFlags = {} /\ cfgFiles = <<>>
        /\ \E a \in InputConfigs("a"), b \in InputConfigs("b") :
             LET sa == Store(<<>>, a)
                 sb == Store(sa.h, b)
             IN heap = sb.h /\ cfgA = sa.p /\ cfgB = sb.p
     \/ /\ heap = <<>> /\ cfgA = 0 /\ cfgB = 0
        /\ cfgFlags \in SubsetsUpTo(ResolveFields, MaxSetFields)
        /\ cfgFiles \in FileSeqs(MaxPaths)

NextConfig == ApplyMerge \/ ApplyFinalize \/ Resolve \/ Reload

SpecConfig == InitConfig /\ [][NextConfig]_vars

\* ------------------------------------------------------------------ claims
\* A pass of generation g is in flight: Process was entered and has not returned.
InPass(g) == rPc[g] \in {"list", "entries", "pass_err_send", "done_send"}

\* Generation g has been created by NewRunner.
Created(g) == rPc[g] # "none"

\* C1: across a reload the generations do not overlap: at most one pass is
\* executing at any instant, and once the new Runner has been started no pass
\* of an older Runner is in flight.
C1_NoOverlapAcrossReload ==
  /\ Cardinality({g \in Gens : InPass(g)}) <= 1
  /\ \A g \in Gens : (g < cur /\ Created(cur)) => ~InPass(g)

\* C2: Stopped is terminal: once Runner.Stop has returned for a Runner, that
\* Runner starts no new pass.
C2_NoPassAfterStop ==
  [][\A g \in Gens : stopReturned[g] > 0 => ~(~InPass(g) /\ InPass(g)')]_vars

\* C3: two consecutive successful non-dry passes over the same listing: the
\* second one saves nothing.
C3_SecondPassWritesNothing ==
  \A g \in Gens : \A i \in 1..(Len(hist[g]) - 1) :
    (/\ ~dry
     /\ hist[g][i].result = "ok" /\ hist[g][i + 1].result = "ok"
     /\ hist[g][i].keys = hist[g][i + 1].keys)
    => hist[g][i + 1].saves = <<>>

\* C4: the exit statuses are ok = 0, generic error = 10, interrupted = 11,
\* flag-parse error = 12, runner error = 13, config error = 14.
C4_ExitStatusValues ==
  cliPc = "exited" =>
    /\ exitCause \in {"help", "version", "done", "stop"} => exitCode = 0
    /\ exitCause = "signal" => exitCode = 11
    /\ exitCause = "flag_err" => exitCode = 12
    /\ exitCause \in {"new_runner_err", "reload_runner_err"} => exitCode = 13
    /\ exitCause \in {"config_err", "reload_config_err"} => exitCode = 14

\* C5: with retries enabled, baseBackoff > 0 and maxBackoff > 0, a granted
\* retry never waits longer than maxBackoff.
C5_WaitAtMostMaxBackoff ==
  (/\ retryCfg.enabled /\ retryCfg.backoff > 0 /\ retryCfg.maxBackoff > 0
   /\ retryRes.retry)
  => retryRes.wait <= retryCfg.maxBackoff

\* C6: a reload stops the current Runner before the configuration is read
\* again; when loading and construction succeed it starts exactly one new
\* Runner and stays in the loop; at the loop exactly one Runner is current and
\* every earlier one has had Stop called on it.
C6_ReloadReplacesRunner ==
  [][/\ (cliPc' = "reload_load" =>
           stopReturned'[cur'] >= 1 /\ stopped'[cur'])
     /\ (cliPc = "reload_load" /\ cliPc' # "reload_load" =>
           \/ /\ cliPc' = "exited"
              /\ exitCause' \in {"reload_config_err", "reload_runner_err"}
              /\ \A g \in Gens : Created(g)' = Created(g)
           \/ /\ cliPc' = "select"
              /\ cur' = cur + 1
              /\ ~Created(cur') /\ rPc'[cur'] = "start"
              /\ \A g \in Gens \ {cur'} : rPc'[g] = rPc[g])
     /\ (cliPc' = "select" =>
           /\ \A g \in Gens : (g < cur') => stopReturned'[g] >= 1
           /\ \A g \in Gens : Created(g)' <=> g <= cur'
           /\ ~stopped'[cur'])]_vars

C6_Witness ==
  /\ cliPc = "select" /\ cur = 2 /\ Created(2)
  /\ stopReturned[1] = 1 /\ doneCh[1] = "closed"

\* C7: a signal other than the reload signal makes the Supervisor call Stop on
\* the current Runner and then return the interrupt status; no Runner is
\* created on the way.
C7_OtherSignalInterrupts ==
  [][/\ (signalCh # <<>> /\ signalCh' = <<>> /\ Head(signalCh) # "reload" =>
           /\ cliPc' = "kill_stop"
           /\ stopPc'[CliCaller] = "lock" /\ stopTarget'[CliCaller] = cur)
     /\ (cliPc = "kill_stop" =>
           /\ cur' = cur
           /\ \A g \in Gens : Created(g)' = Created(g)
           /\ \/ cliPc' = "kill_stop"
              \/ /\ cliPc' = "exited" /\ exitCode' = ExitCodeInterrupt
                 /\ stopReturned[cur] >= 1 /\ stopped[cur])
     /\ (cliPc # "exited" /\ cliPc' = "exited" /\ exitCause' = "signal" =>
           cliPc = "kill_stop")]_vars

C7_Witness ==
  /\ cliPc = "exited" /\ exitCause = "signal" /\ exitCode = ExitCodeInterrupt
  /\ stopReturned[cur] = 1 /\ cur = 1

\* A blocked `ErrCh <- err` of generation g is received in this step.
ErrReceived(g) ==
  /\ rPc[g] \in {"pid_err_send", "init_err_send", "pass_err_send"}
  /\ rPc'[g] # rPc[g]

\* C8: on a Runner error the Supervisor returns the exit status the error
\* carries, or the runner-error status when it carries none; it does not go
\* on with its loop.
C8_RunnerErrorExits ==
  [][\A g \in Gens : ErrReceived(g) =>
        /\ g = cur /\ cliPc = "select" /\ cliPc' = "exited"
        /\ exitCause' = "runner_err"
        /\ IF pendingErr[g].exitable
           THEN exitCode' = pendingErr[g].status
           ELSE exitCode' = ExitCodeRunnerError]_vars

C8_Witness ==
  /\ cliPc = "exited" /\ exitCause = "runner_err"
  /\ exitCode \in ExitHints

\* C9: when the Supervisor receives the current Runner's done signal it calls
\* Stop on that Runner and then returns the ok status.
C9_DoneStopsAndExitsOk ==
  [][/\ (\A g \in Gens : rPc[g] = "done_send" /\ rPc'[g] # "done_send" =>
           /\ g = cur /\ cliPc = "select" /\ cliPc' = "done_stop"
           /\ stopPc'[CliCaller] = "lock" /\ stopTarget'[CliCaller] = g)
     /\ (cliPc = "done_stop" =>
           /\ cur' = cur
           /\ \/ cliPc' = "done_stop"
              \/ /\ cliPc' = "exited" /\ exitCode' = ExitCodeOK
                 /\ stopReturned[cur] >= 1 /\ stopped[cur])
     /\ (cliPc # "exited" /\ cliPc' = "exited" /\ exitCause' = "done" =>
           cliPc = "done_stop")]_vars

C9_Witness ==
  /\ cliPc = "exited" /\ exitCause = "done" /\ exitCode = ExitCodeOK
  /\ stopReturned[cur] = 1 /\ Len(hist[cur]) = 1 /\ hist[cur][1].done

\* C10: however many calls of Stop a Runner gets, one after the other or
\* concurrently, its done channel is closed once and the PID file removal is
\* attempted once; a call that finds the Runner stopped changes nothing.
C10_StopIdempotent ==
  \A g \in Gens :
    /\ closeCount[g] <= 1 /\ pidAttempts[g] <= 1
    /\ stopReturned[g] >= 1 =>
         /\ closeCount[g] = 1 /\ pidAttempts[g] = 1
         /\ stopped[g] /\ doneCh[g] = "closed"

C10_Witness ==
  /\ stopReturned[1] >= 3 /\ closeCount[1] = 1
  /\ \E t \in Testers : stopPc[t] \in {"check", "deletePid", "close"}

\* The step is the return of a pass of generation g that forwarded nothing.
PassFinishes(g) == rPc[g] = "entries" /\ rPc'[g] \in {"loop", "done_send"}

\* C11: in dry-run mode neither the construction of the Processor nor any
\* pass creates, truncates or writes a file or the destination directory.
C11_DryRunWritesNothing ==
  [][dry => (fs' = fs /\ toDir' = toDir)]_vars

C11_Witness ==
  /\ dry /\ ~toDir /\ fs = [n \in Names |-> NoFile]
  /\ Len(hist[1]) >= 1 /\ Len(hist[1][1].saves) = 2

\* C12: when a non-dry pass returns without error, every listed entry with a
\* non-empty final key segment has its payload as the content of the file
\* named by that segment.
C12_RoundTrip ==
  [][\A g \in Gens : (~dry /\ PassFinishes(g)) =>
        \A i \in 1..Len(pass[g].keys) :
          LET pair == pass[g].keys[i]
          IN Leaf(pair.Key) # "" => fs'[Leaf(pair.Key)] = pair.Value]_vars

\* C13: a pass performs the send on the done channel exactly when it went
\* through the whole listing without error and the Processor is in run-once
\* or dry-run mode, written entries or not; a pass in normal mode and a pass
\* that forwarded an error do not.
C13_DoneExactlyOnceOrDry ==
  [][\A g \in Gens :
       /\ (rPc[g] # "done_send" /\ rPc'[g] = "done_send" =>
             /\ rPc[g] = "entries" /\ pass[g].idx > Len(pass[g].keys)
             /\ (once \/ dry) /\ pendingErr[g] = NoErr)
       /\ (PassFinishes(g) => (rPc'[g] = "done_send" <=> (once \/ dry)))
       /\ (rPc[g] = "pass_err_send" => rPc'[g] \in {"pass_err_send", "loop"})
       /\ \A i \in 1..Len(hist'[g]) :
            hist'[g][i].done => hist'[g][i].result = "ok" /\ (once \/ dry)]_vars

C13_Witness ==
  /\ Len(hist[1]) >= 1 /\ hist[1][1].done
  /\ hist[1][1].saves = <<>> /\ hist[1][1].reads >= 1

\* C14: a failed listing is forwarded on the error channel once; the pass
\* reads and writes no file, does not signal done, does not list again, and
\* returns.
C14_ListErrorEndsPass ==
  [][\A g \in Gens :
       /\ (rPc[g] = "list" /\ rPc'[g] # "list" =>
             \/ rPc'[g] = "entries" /\ pendingErr'[g] = NoErr
             \/ /\ rPc'[g] = "pass_err_send" /\ pendingErr'[g] \in ListErrors
                /\ fs' = fs /\ pass'[g] = NoPass /\ hist' = hist)
       /\ (rPc[g] = "pass_err_send" /\ pendingErr[g].kind = "list" =>
             /\ fs' = fs /\ pass'[g] = NoPass
             /\ \/ rPc'[g] = "pass_err_send" /\ hist' = hist
                \/ /\ rPc'[g] = "loop" /\ pendingErr'[g] = NoErr
                   /\ hist'[g] = Append(hist[g],
                                        PassRecord(NoPass, "list_err", FALSE)))]_vars

C14_Witness ==
  /\ Len(hist[1]) >= 1 /\ hist[1][Len(hist[1])].result = "list_err"
  /\ rPc[1] = "loop" /\ remote # <<>>

\* C15: when writing an entry's file fails in a non-dry pass the error is
\* forwarded, no later entry is read or written, done is not signalled, and
\* the files the pass wrote for earlier entries keep what was written.
C15_WriteErrorAbortsPass ==
  [][\A g \in Gens :
       /\ (rPc[g] = "entries" /\ rPc'[g] = "pass_err_send" =>
             /\ ~dry /\ pendingErr'[g].kind = "write"
             /\ \A k \in 1..Len(pass[g].saves) :
                  LET name == Leaf(pass[g].keys[pass[g].saves[k]].Key)
                  IN fs'[name] = fs[name])
       /\ (rPc[g] = "pass_err_send" /\ pendingErr[g].kind = "write" =>
             /\ fs' = fs /\ pass'[g] = pass[g]
             /\ rPc'[g] \in {"pass_err_send", "loop"})]_vars

\* C16: a pass whose listing succeeds with no entry writes nothing, forwards
\* no error and returns ok.
C16_EmptyListingOk ==
  [][\A g \in Gens : (rPc[g] = "entries" /\ pass[g].keys = <<>>) =>
       /\ fs' = fs /\ toDir' = toDir /\ pendingErr' = pendingErr
       /\ pass'[g] = pass[g]
       /\ rPc'[g] \in {"entries", "loop", "done_send"}
       /\ (rPc'[g] = "loop" =>
             hist'[g] = Append(hist[g], [keys |-> <<>>, saves |-> <<>>, reads |-> 0,
                                         result |-> "ok", done |-> FALSE]))]_vars

C16_Witness ==
  /\ remote = <<>> /\ Len(hist[1]) >= 1
  /\ hist[1][1] = [keys |-> <<>>, saves |-> <<>>, reads |-> 0,
                   result |-> "ok", done |-> FALSE]
  /\ pendingErr[1] = NoErr

\* C17: decide(i) is (false, 0) exactly when retries are disabled or a cap
\* attempts > 0 is set and i >= attempts; otherwise it grants a retry, also
\* for attempts = 0 and the largest i.
C17_RetryGrantedIffUnderCap ==
  [][LET refuse == \/ ~retryCfg.enabled
                   \/ retryCfg.attempts > 0 /\ retryIdx' >= retryCfg.attempts
     IN /\ refuse <=> retryRes' = [retry |-> FALSE, wait |-> 0]
        /\ ~refuse <=> retryRes'.retry]_vars

C17_Witness ==
  /\ retryCfg.enabled /\ retryCfg.attempts = 0
  /\ retryIdx = MaxRetry /\ retryRes.retry

\* C18: for a policy with retries enabled the wait does not decrease with
\* the attempt index: a granted retry at i and a later one at j > i have
\* wait(i) <= wait(j).
C18_WaitMonotone ==
  [][(/\ retryCfg.enabled /\ retryRes.retry /\ retryRes'.retry
      /\ retryIdx < retryIdx')
     => retryRes.wait <= retryRes'.wait]_vars

\* C19 as stated: with retries enabled and baseBackoff > 0, decide(0) is
\* (true, baseBackoff) whatever maxBackoff is.
C19_FirstRetryWaitsBase ==
  [][(retryCfg.enabled /\ retryCfg.backoff > 0 /\ retryIdx' = 0)
     => retryRes' = [retry |-> TRUE, wait |-> retryCfg.backoff]]_vars

\* C19 amended: with retries enabled and baseBackoff > 0, decide(0) grants a
\* retry; its wait is baseBackoff when maxBackoff is 0 or at least
\* baseBackoff, and maxBackoff when 0 < 2 * maxBackoff <= baseBackoff.
C19_FirstRetryWaitsBaseUnlessClamped ==
  [][(retryCfg.enabled /\ retryCfg.backoff > 0 /\ retryIdx' = 0)
     => /\ retryRes'.retry
        /\ (retryCfg.maxBackoff = 0 \/ retryCfg.maxBackoff >= retryCfg.backoff)
             => retryRes'.wait = retryCfg.backoff
        /\ (retryCfg.maxBackoff > 0 /\ 2 * retryCfg.maxBackoff <= retryCfg.backoff)
             => retryRes'.wait = retryCfg.maxBackoff]_vars

C19_Witness ==
  /\ retryCfg.enabled /\ retryIdx = 0 /\ retryRes.retry
  /\ retryCfg.maxBackoff > 0 /\ 2 * retryCfg.maxBackoff <= retryCfg.backoff
  /\ retryRes.wait = retryCfg.maxBackoff

\* Generation g returned from a pass without error.
PassCompleted(g) == \E i \in 1..Len(hist[g]) : hist[g][i].result = "ok"

\* What the claim's hypotheses rule out for generation g once it is current:
\* a further signal or stop request, an error of g's own (PID file, directory,
\* listing, write), and the model running out of passes before g's first.
Excused(g) ==
  \/ signalCh # <<>> \/ stopCh = "closed"
  \/ pendingErr[g] # NoErr
  \/ PassesStarted >= passLimit /\ passCount[g] = 0

\* C20: once a reload has succeeded and the new Runner is started, then,
\* under fair scheduling and timer ticks and without errors or further
\* signals, the new Runner eventually completes a pass.
C20_ReloadedRunnerPasses ==
  \A g \in Gens \ {1} :
    (cur = g /\ cliPc = "select" /\ rPc[g] = "start")
      ~> (PassCompleted(g) \/ Excused(g))

\* C21: when loadConfigs or the logging setup fails during a reload, Cli.Run
\* returns the config-error status; the Runner it stopped stays the last one:
\* no generation after it exists, and every Runner ever created has been
\* stopped.
C21_ReloadFailureExitsConfigError ==
  (cliPc = "exited" /\ exitCause = "reload_config_err") =>
    /\ exitCode = ExitCodeConfigError
    /\ stopReturned[cur] >= 1
    /\ \A g \in Gens : Created(g) <=> g <= cur
    /\ \A g \in Gens : Created(g) => stopped[g]

C21_Witness ==
  /\ cliPc = "exited" /\ exitCause = "reload_config_err"
  /\ exitCode = ExitCodeConfigError /\ cur = 1 /\ ~Created(2)

C26_NoSendOnClosedChannel ==
  /\ ~panicked
  /\ \A g \in Gens : ~(rPc[g] = "done_send" /\ doneCh[g] = "closed")

\* C27: when Cli.Run has returned after a Runner with a PID file path was
\* started, Stop has been called on that Runner and has returned, and the PID
\* file does not exist.
C27_StoppedAndPidGoneAtExit ==
  (cliPc = "exited" /\ cur \in Gens /\ pidPath # "") =>
    /\ stopReturned[cur] >= 1
    /\ ~pidFile

\* C28: Runner.Start makes one pass before it waits on the timer: a Runner
\* that sits in its loop has started a pass already, and a generation's first
\* pass is not the one a tick starts.
C28_InitialPassBeforeTick ==
  \A g \in Gens : rPc[g] = "loop" => passCount[g] >= 1

\* Generation g has forwarded a listing or write error: the Supervisor
\* received it from the error channel.
Forwarded(g) == \E i \in 1..Len(hist[g]) : hist[g][i].result # "ok"

\* C29: once a pass of a Runner has forwarded an error, that Runner's loop
\* starts no further pass.
C29_NoPassAfterForwardedError ==
  [][\A g \in Gens : Forwarded(g) => passCount'[g] = passCount[g]]_vars

\* C30: after Runner.Stop has returned for a Runner, its loop eventually
\* exits (or the whole process ends), whatever the loop was doing.
C30_StoppedLoopExits ==
  \A g \in Gens :
    (stopReturned[g] >= 1) ~> (rPc[g] = "exited" \/ procGone \/ panicked)

\* C23: after Finalize every field of the Config holds a value: from, to,
\* interval, pidFile, the signals, the log level, and every field of the
\* connection, retry and syslog sub-configurations.
C23_FinalizeFillsEveryField ==
  cfgOp = "finalize" =>
    \A path \in Fields : Get(DeepConfig(heap, cfgOut), path) # Nil

\* The last of the paths read whose configuration sets the field.
LastSetter(path) ==
  LET setters == {i \in 1..Len(cfgFiles) : Get(cfgFiles[i], path) # Nil}
  IN IF setters = {} THEN 0
     ELSE CHOOSE i \in setters : \A j \in setters : j <= i

\* C24: in the configuration resolved at startup and at a reload, a field
\* given by a flag has the flag's value whatever the files hold, and a field
\* that no flag gives and some path sets has the value of the last path that
\* sets it.
C24_FlagsThenLaterPathsWin ==
  cfgOp \in {"resolve", "reload"} =>
    \A path \in Fields :
      LET r == Get(DeepConfig(heap, cfgOut), path)
      IN /\ path \in cfgFlags => r = Some("flag")
         /\ (path \notin cfgFlags /\ LastSetter(path) # 0) =>
              r = Get(cfgFiles[LastSetter(path)], path)

\* C25: c := a.Merge(b). Every field of c is b's when b sets it and a's
\* otherwise; with one operand nil c is a copy of the other (equal to it,
\* sharing no struct with it) and with both nil it is nil; the structs of a and
\* of b are what they were.
C25_MergeRightmostWins ==
  [][(cfgOp = "none" /\ cfgOp' = "merge") =>
       LET a == DeepConfig(heap, cfgA)
           b == DeepConfig(heap, cfgB)
           r == DeepConfig(heap', cfgOut')
       IN /\ \A path \in Fields :
               Get(r, path) = IF Get(b, path) # Nil THEN Get(b, path) ELSE Get(a, path)
          /\ (cfgA = 0 /\ cfgB = 0) => cfgOut' = 0
          /\ (cfgA = 0 /\ cfgB # 0) => r = b
          /\ (cfgA # 0 /\ cfgB = 0) => r = a
          /\ (cfgA # 0 \/ cfgB # 0) =>
               /\ cfgOut' # 0
               /\ Reach(heap', cfgOut') \cap (1..Len(heap)) = {}
          /\ \A i \in 1..Len(heap) : heap'[i] = heap[i]
          /\ DeepConfig(heap', cfgA) = a /\ DeepConfig(heap', cfgB) = b]_vars

C25_Witness ==
  /\ cfgOp = "merge" /\ cfgA # 0 /\ cfgB # 0
  /\ heap[cfgA].LogLevel = Some("a") /\ heap[cfgB].LogLevel = Some("b")
  /\ heap[cfgOut].LogLevel = Some("b")
  /\ heap[cfgB].Consul # 0 /\ heap[cfgOut].Consul \notin {0, heap[cfgB].Consul}

\* floor(log2(maxSleep / baseSleep)) as a real-number floor, for both
\* positive: below 1 the ratio's logarithm is negative and the floor is
\* -ceil(log2(baseSleep / maxSleep)).
RECURSIVE CeilLog2(_, _)
CeilLog2(n, d) == IF d >= n THEN 0 ELSE 1 + CeilLog2(n, 2 * d)
FloorLog2Ratio(maxSleep, baseSleep) ==
  IF maxSleep >= baseSleep
  THEN FloorLog2(maxSleep, baseSleep)
  ELSE 0 - CeilLog2(baseSleep, maxSleep)

\* C33: when decide(i) grants a retry, the wait is baseBackoff * 2^i if
\* maxBackoff = 0 or i <= floor(log2(maxBackoff / baseBackoff)), and it is
\* exactly maxBackoff if maxBackoff > 0 and i > floor(log2(maxBackoff /
\* baseBackoff)).
C33_WaitExponentialThenClamped ==
  [][retryRes'.retry =>
       LET under == \/ retryCfg.maxBackoff = 0
                    \/ retryIdx' <= FloorLog2Ratio(retryCfg.maxBackoff, retryCfg.backoff)
       IN retryRes'.wait = IF under THEN retryCfg.backoff * Pow2(retryIdx')
                           ELSE retryCfg.maxBackoff]_vars

\* A pass of generation g has sent the done signal (the Supervisor received
\* it).
DoneSent(g) == \E i \in 1..Len(hist[g]) : hist[g][i].done

\* C31: in run-once mode, once a pass of a Runner has sent the done signal no
\* further pass starts in that generation.
C31_OncePassThenNoMore ==
  [][\A g \in Gens : (once /\ DoneSent(g)) => passCount'[g] = passCount[g]]_vars

\* The Supervisor is between the receive of a signal and its return to the
\* select (or its return from Cli.Run).
BusyWithSignal == cliPc \in {"reload_stop", "reload_load", "kill_stop"}

\* C32: a signal that arrives while the Supervisor is busy with an earlier one
\* and finds the channel free is held in it; a held signal stays until the
\* Supervisor's select receives it and dispatches on it, which under fair
\* scheduling happens unless Cli.Run returns first; at most one signal is held
\* at any time.
C32_PendingSignalKept ==
  /\ [](Len(signalCh) <= 1)
  /\ [][/\ (sigCount' # sigCount /\ signalCh = <<>> /\ BusyWithSignal) =>
             Len(signalCh') = 1 /\ cliPc' = cliPc
        /\ (sigCount' # sigCount /\ signalCh # <<>>) => signalCh' = signalCh
        /\ (signalCh # <<>> /\ signalCh' # signalCh) =>
             /\ cliPc = "select" /\ signalCh' = <<>>
             /\ cliPc' = SignalBranch(Head(signalCh))]_vars
  /\ (signalCh # <<>>) ~> (signalCh = <<>> \/ cliPc = "exited" \/ panicked)

C32_Witness ==
  /\ cliPc = "reload_load" /\ signalCh = <<"kill">> /\ sigCount = 2
  /\ stopReturned[1] = 1 /\ ~panicked

\* What a dry-run pass over `keys` reports from the files `files`: the
\* entries, by their place in the listing, whose leaf is not empty and whose
\* file is missing or hashes differently (no file changes during the pass).
RECURSIVE DryReport(_, _, _)
DryReport(keys, files, i) ==
  IF i > Len(keys) THEN <<>>
  ELSE LET pair == keys[i]
           name == Leaf(pair.Key)
           fHash == IF name = "" \/ files[name] = NoFile THEN <<>>
                    ELSE getHash(files[name])
       IN (IF name # "" /\ fHash # getHash(pair.Value) THEN <<i>> ELSE <<>>)
          \o DryReport(keys, files, i + 1)

\* C34: a pass that returns without error has gone to save, in listing order,
\* exactly the entries a dry-run pass reports for the same listing and the
\* same files: a dry-run pass logs them, a non-dry pass writes them.
C34_DryReportsWhatIsWritten ==
  [][\A g \in Gens : PassFinishes(g) =>
       pass[g].saves = DryReport(pass[g].keys, pass[g].before, 1)]_vars

\* The step is one iteration of the loop of Process, for generation g.
EntryStep(g) == rPc[g] = "entries" /\ pass'[g].idx = pass[g].idx + 1

\* C35: within a pass, an entry with a non-empty leaf goes to save exactly
\* when its file cannot be read or holds other bytes than the payload; a
\* failed read alone forwards no error; an entry whose file holds the payload
\* changes nothing; a save that succeeds in a non-dry pass leaves the payload
\* in the file.
C35_WrittenIffMissingOrDifferent ==
  [][\A g \in Gens : EntryStep(g) =>
       LET pair == pass[g].keys[pass[g].idx]
           name == Leaf(pair.Key)
           unreadable == ~toDir \/ fs[name] = NoFile
           saved == pass'[g].saves # pass[g].saves
       IN name # "" =>
            /\ saved <=> (unreadable \/ getHash(fs[name]) # getHash(pair.Value))
            /\ pass'[g].reads = pass[g].reads + 1
            /\ ~saved => /\ fs' = fs /\ rPc'[g] = "entries"
                         /\ pendingErr' = pendingErr
            /\ rPc'[g] = "pass_err_send" =>
                 saved /\ ~dry /\ pendingErr'[g] = PlainErr("write")
            /\ (saved /\ ~dry /\ rPc'[g] = "entries") =>
                 fs' = [fs EXCEPT ![name] = pair.Value]]_vars

C35_Witness ==
  /\ ~dry /\ Len(hist[1]) >= 1 /\ hist[1][1].result = "ok"
  /\ Len(hist[1][1].keys) = 2 /\ hist[1][1].reads = 2
  /\ hist[1][1].saves = <<2>>

\* C36: an entry whose key ends in an empty segment causes no read, no write
\* and no error: the pass moves on to the next entry. Every other entry reads
\* the file named by its last segment, and no other file changes for it.
C36_EmptyLeafSkipped ==
  [][\A g \in Gens : EntryStep(g) =>
       LET key == pass[g].keys[pass[g].idx].Key
           name == key[Len(key)]
       IN IF name = ""
          THEN /\ pass'[g] = [pass[g] EXCEPT !.idx = @ + 1]
               /\ fs' = fs /\ toDir' = toDir
               /\ rPc'[g] = "entries" /\ pendingErr' = pendingErr
          ELSE /\ pass'[g].reads = pass[g].reads + 1
               /\ name \in Names
               /\ \A n \in Names \ {name} : fs'[n] = fs[n]]_vars

C36_Witness ==
  /\ ~dry /\ Len(hist[1]) >= 1 /\ hist[1][1].result = "ok"
  /\ Len(hist[1][1].keys) = 2 /\ hist[1][1].keys[1].Key = <<"p", "d", "">>
  /\ hist[1][1].reads = 1 /\ hist[1][1].saves = <<2>>
  /\ fs["a"] = hist[1][1].keys[2].Value

\* C39: no step of a pass removes a file, and a file changes only while a
\* pass is in flight whose listing has a key with that file's name as its
\* last segment: a file no listed key names (that of an entry no longer in
\* the store) keeps its content.
C39_UnlistedFilesUntouched ==
  [][\A n \in Names :
       /\ fs[n] # NoFile => fs'[n] # NoFile
       /\ fs'[n] # fs[n] =>
            \E g \in Gens :
              /\ InPass(g)
              /\ \E i \in 1..Len(pass[g].keys) : Leaf(pass[g].keys[i].Key) = n]_vars

C39_Witness ==
  /\ ~dry /\ Len(hist[1]) = 2
  /\ hist[1][1].result = "ok" /\ hist[1][2].result = "ok"
  /\ hist[1][1].keys = <<[Key |-> <<"p", "a">>, Value |-> "1"],
                         [Key |-> <<"p", "b">>, Value |-> "2"]>>
  /\ hist[1][1].saves = <<1, 2>>
  /\ hist[1][2].keys = <<[Key |-> <<"p", "a">>, Value |-> "1"]>>
  /\ fs = [a |-> "1", b |-> "2"]

\* C40: a value a configuration file gives for from, to or interval is the
\* value of that field in the resolved configuration when the field's flag
\* (-from, -to, -interval) was not given.
C40_FileValueWithoutFlag ==
  cfgOp \in {"resolve", "reload"} =>
    \A path \in { <<"From">>, <<"To">>, <<"Interval">> } :
      (path \notin cfgFlags /\ LastSetter(path) # 0) =>
        Get(DeepConfig(heap, cfgOut), path) = Get(cfgFiles[LastSetter(path)], path)

\* C37: whatever the number of calls of Cli.stop, the stop channel is closed
\* once, by the first call, and a later call changes nothing; once the channel
\* is closed the Supervisor loop terminates with the ok status.
C37_StopClosesOnceAndExitsOk ==
  /\ [][/\ stopCh' # stopCh =>
             /\ stopCh = "open" /\ ~cliStopped
             /\ stopCh' = "closed" /\ cliStopped'
        /\ cliStopped => cliStopped' /\ stopCh' = "closed"]_vars
  /\ (stopCh = "closed") ~> (cliPc = "exited" /\ exitCode = ExitCodeOK)

\* C38: cliConfig, the configuration Cli.Run keeps for the reloads, is the
\* copy of what ParseFlags returned and stays so: loading, finalizing and
\* creating the Runner at startup and at every reload change no struct of it.
C38_BaseConfigNeverModified ==
  [][/\ (cfgOp = "none" /\ cfgOp' = "resolve") =>
          /\ cfgCli' # 0 /\ cfgCli' # cfgOut'
          /\ DeepConfig(heap', cfgCli')
               = LET c == ParseFlags(<<>>, cfgFlags) IN DeepConfig(c.h, c.p)
     /\ cfgCli # 0 =>
          /\ cfgCli' = cfgCli
          /\ \A i \in Reach(heap, cfgCli) : heap'[i] = heap[i]
          /\ Reach(heap', cfgOut') \cap Reach(heap, cfgCli) = {}]_vars

C38_Witness ==
  /\ cfgOp = "reload" /\ cfgLoads = 2 /\ cfgCli # 0 /\ cfgOut # cfgCli
  /\ cfgFiles # <<>> /\ cfgFlags = {<<"PidFile">>}
  /\ heap[cfgCli].PidFile = Some("flag") /\ heap[cfgCli].KillSignal = Nil
  /\ heap[cfgOut].KillSignal = Some("SIGINT")
====
